---- MODULE Spec2Model ----
(***************************************************************************)
(* A model of mcp-helper: the MCP Helper (session registry, connection     *)
(* factory, tool catalog) of main.go and the ext-proc mediator of          *)
(* ext-proc/request.go, ext-proc/response.go and pkg/bbr/handlers/server.go *)
(*                                                                         *)
(* Strings are sequences of one-character strings, so that prefix tests,   *)
(* prefix trimming, slicing and concatenation are computed as the Go code  *)
(* computes them.                                                          *)
(***************************************************************************)
EXTENDS Integers, Sequences, FiniteSets, TLC

VARIABLES
    phase,             \* main(): "boot", "clients", "serving" or "fatal"
    backendTools,      \* what each backend answers to ListTools at startup
    aggregatedTools,   \* MCPHelper.aggregatedTools
    issued,            \* gateway session ids handed out by the client handshake
    tasks,             \* goroutines creating backend connections, in spawn order
    backendSessions,   \* per backend: the sessions it has opened, in order
    clientConnections, \* MCPHelper.clientConnections (a map keyed by session id)
    sessionMappings,   \* MCPHelper.sessionMappings (a map keyed by session id)
    streaming,         \* Server.streaming
    helper,            \* Server.helper: whether a registry is attached (not nil)
    requestHeaders,    \* Server.requestHeaders: one field of the one Server
    streams            \* the open Process streams, one per HTTP exchange

catalogVars == <<phase, backendTools, aggregatedTools>>

registryVars == <<issued, tasks, backendSessions, clientConnections, sessionMappings>>

mediatorVars == <<streaming, helper, requestHeaders, streams>>

vars == <<phase, backendTools, aggregatedTools, issued, tasks, backendSessions,
          clientConnections, sessionMappings, streaming, helper, requestHeaders, streams>>

----------------------------------------------------------------------------
(* Strings *)

\* strings.HasPrefix
HasPrefix(s, p) == Len(s) >= Len(p) /\ SubSeq(s, 1, Len(p)) = p

\* strings.TrimPrefix
TrimPrefix(s, p) == IF HasPrefix(s, p) THEN SubSeq(s, Len(p) + 1, Len(s)) ELSE s

\* Go maps: a function whose domain is the set of keys present
EmptyMap == [k \in {} |-> {}]

MapPut(m, k, v) == [x \in (DOMAIN m) \cup {k} |-> IF x = k THEN v ELSE m[x]]

Server1Name == <<"s", "e", "r", "v", "e", "r", "1">>
Server2Name == <<"s", "e", "r", "v", "e", "r", "2">>
Backends == {Server1Name, Server2Name}

----------------------------------------------------------------------------
(* Routing table: ext-proc/request.go *)

serverConfigs ==
    << [prefix |-> Server1Name \o <<"-">>, target |-> Server1Name],
       [prefix |-> Server2Name \o <<"-">>, target |-> Server2Name] >>

RECURSIVE RouteFrom(_, _)
RouteFrom(toolName, i) ==
    IF i > Len(serverConfigs) THEN <<>>
    ELSE IF HasPrefix(toolName, serverConfigs[i].prefix)
         THEN serverConfigs[i].target
         ELSE RouteFrom(toolName, i + 1)

\* A routing on the backend's name alone, without the dash of the prefix.
RouteByName(toolName) ==
    IF HasPrefix(toolName, Server1Name) THEN Server1Name
    ELSE IF HasPrefix(toolName, Server2Name) THEN Server2Name
    ELSE <<>>

getRouteTargetFromTool(toolName) == RouteFrom(toolName, 1)

RECURSIVE StripFrom(_, _)
StripFrom(toolName, i) ==
    IF i > Len(serverConfigs) THEN toolName
    ELSE IF HasPrefix(toolName, serverConfigs[i].prefix)
         THEN TrimPrefix(toolName, serverConfigs[i].prefix)
         ELSE StripFrom(toolName, i + 1)

\* A stripping that keeps removing recognised prefixes.
RECURSIVE StripAllPrefixes(_)
StripAllPrefixes(toolName) ==
    IF StripFrom(toolName, 1) = toolName THEN toolName
    ELSE StripAllPrefixes(StripFrom(toolName, 1))

\* The stripping of the earlier revision: only from a name longer than the
\* prefix.
stripLongerNames(toolName) ==
    IF Len(toolName) > Len(StripFrom(toolName, 1)) /\ StripFrom(toolName, 1) # <<>>
    THEN StripFrom(toolName, 1)
    ELSE toolName

stripServerPrefix(toolName) == StripFrom(toolName, 1)

----------------------------------------------------------------------------
(* Tool catalog: main.go, initializeBackends *)

MaxTools == 2

ToolNames ==
    { <<"e", "c", "h", "o">>,
      <<"d", "i", "c", "e">>,
      Server2Name \o <<"-", "x">>,
      Server1Name \o <<"-", "y">> }

\* mcp.Tool: the name and the rest of the tool's metadata
Tool(n, d) == [Name |-> n, Description |-> d]

\* the listings a backend can answer with: at most MaxTools tools, no name twice
Listings ==
    UNION { { l \in [1..n -> {Tool(nm, "d1") : nm \in ToolNames}] :
                \A i, j \in 1..n : i # j => l[i].Name # l[j].Name }
            : n \in 0..MaxTools }

\* A prefixing that returns the tools in the reverse of the listed order.
PrefixToolsReversed(prefix, tools) ==
    [i \in 1..Len(tools) |->
        [tools[Len(tools) + 1 - i] EXCEPT !.Name = prefix \o tools[Len(tools) + 1 - i].Name]]

\* aggregateTools' loop: prefixedTool := tool; prefixedTool.Name = prefix + tool.Name
PrefixTools(prefix, tools) ==
    [i \in 1..Len(tools) |-> [tools[i] EXCEPT !.Name = prefix \o tools[i].Name]]

\* the number of Process streams open at the same time
MaxStreams == 2

\* a nil *HttpHeaders
NilHeaders == [isNil |-> TRUE, Headers |-> <<>>, EndOfStream |-> FALSE]

\* a nil *SessionMapping
NoMapping == [HelperSessionID |-> <<>>, Server1SessionID |-> <<>>, Server2SessionID |-> <<>>]

\* a stream Envoy has not opened.  next is the message Envoy sends next, rest
\* the body chunks it has still to send, streamedBody the local buffer of
\* Process, on/responses the last message received and the responses sent
\* for it, err whether Process returned an error.  own, body and upstream
\* record what the exchange's client and backend sent: the session header
\* and the body of the request, the session header of the response.
IdleStream ==
    [next |-> "idle", rest |-> <<>>, streamedBody |-> <<>>, on |-> "idle",
     responses |-> <<>>, err |-> FALSE, own |-> <<>>, body |-> <<>>,
     upstream |-> <<>>]

\* NewServer(streaming, helper); attached is FALSE for a nil helper
NewServer(strm, attached) ==
    /\ streaming = strm
    /\ helper = attached
    /\ requestHeaders = NilHeaders
    /\ streams = [e \in 1..MaxStreams |-> IdleStream]

CatalogInit ==
    /\ NewServer(FALSE, TRUE)
    /\ phase = "boot"
    /\ backendTools \in [Backends -> Listings]
    /\ aggregatedTools = <<>>
    /\ issued = {}
    /\ tasks = <<>>
    /\ backendSessions = [b \in Backends |-> <<>>]
    /\ clientConnections = EmptyMap
    /\ sessionMappings = EmptyMap

\* the client name of the discovery connections ("MCP Helper (Startup)")
Startup == <<"startup">>

\* the session a backend holds for a discovery connection: its first
StartupSession(b) == [client |-> Startup, sid |-> <<"m", "c", "p", "-", b[7], "1">>]

\* initializeStartupClients: both startup handshakes succeed, or one fails; the
\* handshake with server2 is made only after the one with server1 succeeded
initializeStartupClients ==
    /\ phase = "boot"
    /\ \E ok1, ok2 \in BOOLEAN :
          /\ phase' = IF ok1 /\ ok2 THEN "clients" ELSE "fatal"
          /\ backendSessions' =
                [b \in Backends |->
                    IF (b = Server1Name /\ ok1) \/ (b = Server2Name /\ ok1 /\ ok2)
                    THEN Append(backendSessions[b], StartupSession(b))
                    ELSE backendSessions[b]]
    /\ UNCHANGED <<backendTools, aggregatedTools>>
    /\ UNCHANGED <<issued, tasks, clientConnections, sessionMappings, mediatorVars>>

\* An aggregation that stores each backend's tools as soon as they are listed.
aggregateToolsStoringEach ==
    /\ phase = "clients"
    /\ \E ok1, ok2 \in BOOLEAN :
          /\ aggregatedTools' =
                (IF ok1 THEN PrefixTools(Server1Name \o <<"-">>, backendTools[Server1Name])
                 ELSE <<>>)
                \o (IF ok1 /\ ok2
                    THEN PrefixTools(Server2Name \o <<"-">>, backendTools[Server2Name])
                    ELSE <<>>)
          /\ phase' = IF ok1 /\ ok2 THEN "serving" ELSE "fatal"
    /\ UNCHANGED backendTools
    /\ UNCHANGED <<registryVars, mediatorVars>>

\* aggregateTools: both listings succeed and the catalog is stored, or one fails
aggregateTools ==
    /\ phase = "clients"
    /\ \E ok1, ok2 \in BOOLEAN :
          IF ok1 /\ ok2
          THEN /\ aggregatedTools' =
                     PrefixTools(Server1Name \o <<"-">>, backendTools[Server1Name])
                     \o PrefixTools(Server2Name \o <<"-">>, backendTools[Server2Name])
               /\ phase' = "serving"
          ELSE /\ phase' = "fatal"
               /\ UNCHANGED aggregatedTools
    /\ UNCHANGED backendTools
    /\ UNCHANGED <<registryVars, mediatorVars>>

CatalogNext == initializeStartupClients \/ aggregateTools

SpecCatalog == CatalogInit /\ [][CatalogNext]_vars

----------------------------------------------------------------------------
(* Session registry and connection factory: main.go *)

MaxInits == 2

G1 == <<"g", "1">>
G2 == <<"g", "2">>
SessionIds == {G1, G2}

Digit(n) == <<"0", "1", "2", "3", "4", "5", "6", "7", "8", "9">>[n + 1]

BackendDigit(b) == IF b = Server1Name THEN "1" ELSE "2"

\* the session id a backend assigns to its n-th session: unique, and opaque
\* to the helper (the backends generate "mcp-session-<uuid>")
FreshSessionID(b, n) == <<"m", "c", "p", "-", BackendDigit(b), Digit(n)>>

\* what a handshake with a backend can come to
Outcomes == {"ok", "empty", "err"}

\* the client handle of the n-th session of backend b (*client.Client)
Client(b, n) == [backend |-> b, n |-> n]
NoClient == [backend |-> <<>>, n |-> 0]

\* mcpClient.GetSessionId()
GetSessionId(c) == IF c.n = 0 THEN <<>> ELSE backendSessions[c.backend][c.n].sid

\* the state of a goroutine: what it runs, for which session, where it is, and
\* the connections it holds
Task(kind, sess, pc, c1, c2) ==
    [kind |-> kind, sess |-> sess, pc |-> pc, c1 |-> c1, c2 |-> c2]

\* a goroutine that has returned keeps nothing
Returned(t, how) == Task(t.kind, t.sess, how, NoClient, NoClient)

\* ClientBackendConnections
Connections(sess, c1, sid1, c2, sid2) ==
    [ClientSessionID |-> sess, Server1Client |-> c1, Server2Client |-> c2,
     Server1SessionID |-> sid1, Server2SessionID |-> sid2]

\* SessionMapping
Mapping(sess, sid1, sid2) ==
    [HelperSessionID |-> sess, Server1SessionID |-> sid1, Server2SessionID |-> sid2]

\* the helper after startup, serving and with no session yet; the backends
\* hold the sessions of the two discovery connections
HelperServing ==
    /\ phase = "serving"
    /\ backendTools = [b \in Backends |-> <<Tool(<<"e", "c", "h", "o">>, "d1")>>]
    /\ aggregatedTools =
          PrefixTools(Server1Name \o <<"-">>, backendTools[Server1Name])
          \o PrefixTools(Server2Name \o <<"-">>, backendTools[Server2Name])
    /\ issued = {}
    /\ tasks = <<>>
    /\ backendSessions = [b \in Backends |-> <<StartupSession(b)>>]
    /\ clientConnections = EmptyMap
    /\ sessionMappings = EmptyMap

\* main(): the helper serves and the ext-proc server is built with
\* extProc.NewServer(false, helper)
RegistryInit == HelperServing /\ NewServer(FALSE, TRUE)

\* sessionCapturingWriter.Write: a write of a response whose headers carry
\* mcp-session-id starts a goroutine running handleInitialization
SpawnInitialization(sess) ==
    tasks' = Append(tasks, Task("init", sess, "c1", NoClient, NoClient))

\* the client handshake: the MCP server issues a new session id and the
\* response is written through the sessionCapturingWriter
ClientInitialize(sess) ==
    /\ phase = "serving"
    /\ sess \notin issued
    /\ Len(tasks) < MaxInits
    /\ issued' = issued \cup {sess}
    /\ SpawnInitialization(sess)
    /\ UNCHANGED <<backendSessions, clientConnections, sessionMappings>>
    /\ UNCHANGED <<catalogVars, mediatorVars>>

\* a further Write call on a response that carries the session header
WriteAgain(sess) ==
    /\ phase = "serving"
    /\ sess \in issued
    /\ Len(tasks) < MaxInits
    /\ SpawnInitialization(sess)
    /\ UNCHANGED <<issued, backendSessions, clientConnections, sessionMappings>>
    /\ UNCHANGED <<catalogVars, mediatorVars>>

\* createClientBackendConnection: transport, client, Initialize, GetSessionId.
\* The backend opens a session unless the handshake fails; the caller gets the
\* client only if the session id is not empty.
OpenBackendSession(b, sess, outcome) ==
    IF outcome = "err" THEN backendSessions
    ELSE [backendSessions EXCEPT ![b] =
             Append(@, [client |-> sess,
                        sid |-> IF outcome = "ok"
                                THEN FreshSessionID(b, Len(backendSessions[b]) + 1)
                                ELSE <<>>])]

\* a factory that hands out the first connection of the backend again
SharedBackendConnection(b, outcome) ==
    IF outcome = "ok" THEN Client(b, 1) ELSE NoClient

createClientBackendConnection(b, outcome) ==
    IF outcome = "ok" THEN Client(b, Len(backendSessions[b]) + 1) ELSE NoClient

\* A server1 step that waits until no other creation is under way, as under
\* one lock held for the whole of handleInitialization.
InitConnect1Exclusive(i) ==
    /\ tasks[i].kind = "init" /\ tasks[i].pc = "c1"
    /\ \A j \in DOMAIN tasks \ {i} : tasks[j].pc \notin {"c2", "store", "map"}
    /\ \E outcome \in Outcomes :
          /\ backendSessions' = OpenBackendSession(Server1Name, tasks[i].sess, outcome)
          /\ tasks' = [tasks EXCEPT ![i] =
                IF outcome = "ok"
                THEN [@ EXCEPT !.pc = "c2",
                               !.c1 = createClientBackendConnection(Server1Name, outcome)]
                ELSE Returned(@, "failed")]
    /\ UNCHANGED <<issued, clientConnections, sessionMappings>>
    /\ UNCHANGED <<catalogVars, mediatorVars>>

\* A server1 step that takes a handshake without session id for a success.
InitConnect1AcceptingEmpty(i) ==
    /\ tasks[i].kind = "init" /\ tasks[i].pc = "c1"
    /\ \E outcome \in Outcomes :
          /\ backendSessions' = OpenBackendSession(Server1Name, tasks[i].sess, outcome)
          /\ tasks' = [tasks EXCEPT ![i] =
                IF outcome # "err"
                THEN [@ EXCEPT !.pc = "c2",
                               !.c1 = Client(Server1Name, Len(backendSessions[Server1Name]) + 1)]
                ELSE Returned(@, "failed")]
    /\ UNCHANGED <<issued, clientConnections, sessionMappings>>
    /\ UNCHANGED <<catalogVars, mediatorVars>>

\* createBackendConnectionsForSession, server1 step
InitConnect1(i) ==
    /\ tasks[i].kind = "init" /\ tasks[i].pc = "c1"
    /\ \E outcome \in Outcomes :
          /\ backendSessions' = OpenBackendSession(Server1Name, tasks[i].sess, outcome)
          /\ tasks' = [tasks EXCEPT ![i] =
                IF outcome = "ok"
                THEN [@ EXCEPT !.pc = "c2",
                               !.c1 = createClientBackendConnection(Server1Name, outcome)]
                ELSE Returned(@, "failed")]
    /\ UNCHANGED <<issued, clientConnections, sessionMappings>>
    /\ UNCHANGED <<catalogVars, mediatorVars>>

\* A server2 step that keeps the half-built connections when the handshake fails.
InitConnect2KeepingPartial(i) ==
    /\ tasks[i].kind = "init" /\ tasks[i].pc = "c2"
    /\ \E outcome \in Outcomes :
          /\ backendSessions' = OpenBackendSession(Server2Name, tasks[i].sess, outcome)
          /\ tasks' = [tasks EXCEPT ![i] =
                IF outcome = "ok"
                THEN [@ EXCEPT !.pc = "store",
                               !.c2 = createClientBackendConnection(Server2Name, outcome)]
                ELSE Returned(@, "failed")]
          /\ clientConnections' =
                IF outcome = "ok" THEN clientConnections
                ELSE MapPut(clientConnections, tasks[i].sess,
                            Connections(tasks[i].sess,
                                        tasks[i].c1, GetSessionId(tasks[i].c1),
                                        NoClient, <<>>))
    /\ UNCHANGED <<issued, sessionMappings>>
    /\ UNCHANGED <<catalogVars, mediatorVars>>

\* A server2 step that forgets the session when the handshake fails.
InitConnect2DroppingSession(i) ==
    /\ tasks[i].kind = "init" /\ tasks[i].pc = "c2"
    /\ \E outcome \in Outcomes :
          /\ backendSessions' = OpenBackendSession(Server2Name, tasks[i].sess, outcome)
          /\ tasks' = [tasks EXCEPT ![i] =
                IF outcome = "ok"
                THEN [@ EXCEPT !.pc = "store",
                               !.c2 = createClientBackendConnection(Server2Name, outcome)]
                ELSE Returned(@, "failed")]
          /\ clientConnections' =
                IF outcome = "ok" THEN clientConnections
                ELSE [k \in DOMAIN clientConnections \ {tasks[i].sess} |-> clientConnections[k]]
          /\ sessionMappings' =
                IF outcome = "ok" THEN sessionMappings
                ELSE [k \in DOMAIN sessionMappings \ {tasks[i].sess} |-> sessionMappings[k]]
    /\ UNCHANGED issued
    /\ UNCHANGED <<catalogVars, mediatorVars>>

\* createBackendConnectionsForSession, server2 step
InitConnect2(i) ==
    /\ tasks[i].kind = "init" /\ tasks[i].pc = "c2"
    /\ \E outcome \in Outcomes :
          /\ backendSessions' = OpenBackendSession(Server2Name, tasks[i].sess, outcome)
          /\ tasks' = [tasks EXCEPT ![i] =
                IF outcome = "ok"
                THEN [@ EXCEPT !.pc = "store",
                               !.c2 = createClientBackendConnection(Server2Name, outcome)]
                ELSE Returned(@, "failed")]
    /\ UNCHANGED <<issued, clientConnections, sessionMappings>>
    /\ UNCHANGED <<catalogVars, mediatorVars>>

\* createBackendConnectionsForSession: h.clientConnections[helperSessionID] = connections
InitStoreConnections(i) ==
    /\ tasks[i].kind = "init" /\ tasks[i].pc = "store"
    /\ clientConnections' =
          MapPut(clientConnections, tasks[i].sess,
                 Connections(tasks[i].sess,
                             tasks[i].c1, GetSessionId(tasks[i].c1),
                             tasks[i].c2, GetSessionId(tasks[i].c2)))
    /\ tasks' = [tasks EXCEPT ![i].pc = "map"]
    /\ UNCHANGED <<issued, backendSessions, sessionMappings>>
    /\ UNCHANGED <<catalogVars, mediatorVars>>

\* A mapping that points at the sessions of the discovery connections.
StartupMapping(t) ==
    Mapping(t.sess, GetSessionId(Client(Server1Name, 1)), GetSessionId(Client(Server2Name, 1)))

\* the mapping handleInitialization builds from the connections it created
NewMapping(t) == Mapping(t.sess, GetSessionId(t.c1), GetSessionId(t.c2))

\* A publication of the mapping that also lists the backends' tools again and
\* appends them to the catalog.
InitStoreMappingRediscovering(i) ==
    /\ tasks[i].kind = "init" /\ tasks[i].pc = "map"
    /\ sessionMappings' = MapPut(sessionMappings, tasks[i].sess, NewMapping(tasks[i]))
    /\ tasks' = [tasks EXCEPT ![i] = Returned(@, "done")]
    /\ aggregatedTools' =
          aggregatedTools \o PrefixTools(Server1Name \o <<"-">>, backendTools[Server1Name])
    /\ UNCHANGED <<issued, backendSessions, clientConnections>>
    /\ UNCHANGED <<phase, backendTools, mediatorVars>>

\* handleInitialization: h.sessionMappings[helperSessionID] = mapping
InitStoreMapping(i) ==
    /\ tasks[i].kind = "init" /\ tasks[i].pc = "map"
    /\ sessionMappings' = MapPut(sessionMappings, tasks[i].sess, NewMapping(tasks[i]))
    /\ tasks' = [tasks EXCEPT ![i] = Returned(@, "done")]
    /\ UNCHANGED <<issued, backendSessions, clientConnections>>
    /\ UNCHANGED <<catalogVars, mediatorVars>>

\* GetSessionMapping: (mapping, found)
GetSessionMapping(helperSessionID) ==
    IF helperSessionID \in DOMAIN sessionMappings
    THEN [found |-> TRUE, mapping |-> sessionMappings[helperSessionID]]
    ELSE [found |-> FALSE, mapping |-> NoMapping]

RegistryNext ==
    \/ \E sess \in SessionIds : ClientInitialize(sess)
    \/ \E sess \in SessionIds : WriteAgain(sess)
    \/ \E i \in DOMAIN tasks : InitConnect1(i)
    \/ \E i \in DOMAIN tasks : InitConnect2(i)
    \/ \E i \in DOMAIN tasks : InitStoreConnections(i)
    \/ \E i \in DOMAIN tasks : InitStoreMapping(i)

SpecRegistry == RegistryInit /\ [][RegistryNext]_vars

\* the tool names registered by registerAggregatedTools, each with a closure
\* that calls routeToolCall with the name
AggregatedNames == {aggregatedTools[i].Name : i \in DOMAIN aggregatedTools}

\* mcp.NewToolResultError: a tool result with IsError set
NewToolResultError == "error"

\* A tool call handler that forwards the call to the backend of the prefix over
\* a connection it opens for the calling session.
routeToolCallForwarding(sess, toolName) ==
    /\ phase = "serving"
    /\ sess \in issued
    /\ toolName \in AggregatedNames
    /\ Len(tasks) < MaxInits
    /\ backendSessions' = OpenBackendSession(getRouteTargetFromTool(toolName), sess, "ok")
    /\ tasks' = Append(tasks, Task("call", sess, "result", NoClient, NoClient))
    /\ UNCHANGED <<issued, clientConnections, sessionMappings>>
    /\ UNCHANGED <<catalogVars, mediatorVars>>

\* routeToolCall: a tools/call of a catalog tool that reaches the helper's MCP
\* server in the session sess is answered with an error result
routeToolCall(sess, toolName) ==
    /\ phase = "serving"
    /\ sess \in issued
    /\ toolName \in AggregatedNames
    /\ Len(tasks) < MaxInits
    /\ tasks' = Append(tasks, Task("call", sess, NewToolResultError, NoClient, NoClient))
    /\ UNCHANGED <<issued, backendSessions, clientConnections, sessionMappings>>
    /\ UNCHANGED <<catalogVars, mediatorVars>>

\* the helper's MCP server: handshakes, and tool calls that were not routed
HelperNext ==
    \/ RegistryNext
    \/ \E sess \in SessionIds, toolName \in AggregatedNames : routeToolCall(sess, toolName)

SpecHelper == RegistryInit /\ [][HelperNext]_vars

----------------------------------------------------------------------------
(* The gateway revision of the registry: getOrCreateClientConnections,     *)
(* called by routeToolCall for the session of the calling client           *)

MaxCalls == 2

\* the client handshake of this revision: a session id is issued, nothing else
GatewayClientInitialize(sess) ==
    /\ phase = "serving"
    /\ sess \notin issued
    /\ issued' = issued \cup {sess}
    /\ UNCHANGED <<tasks, backendSessions, clientConnections, sessionMappings>>
    /\ UNCHANGED <<catalogVars, mediatorVars>>

\* routeToolCall: a tool call of an initialized client enters
\* getOrCreateClientConnections on its own goroutine
routeToolCallGateway(sess) ==
    /\ phase = "serving"
    /\ sess \in issued
    /\ Len(tasks) < MaxCalls
    /\ tasks' = Append(tasks, Task("goc", sess, "check", NoClient, NoClient))
    /\ UNCHANGED <<issued, backendSessions, clientConnections, sessionMappings>>
    /\ UNCHANGED <<catalogVars, mediatorVars>>

\* A lookup that ignores the entry it finds and creates again.
GocLookupCreating(i) ==
    /\ tasks[i].kind = "goc" /\ tasks[i].pc = "check"
    /\ tasks' = [tasks EXCEPT ![i].pc = "c1"]
    /\ UNCHANGED <<issued, backendSessions, clientConnections, sessionMappings>>
    /\ UNCHANGED <<catalogVars, mediatorVars>>

\* getOrCreateClientConnections: the lookup under the read lock; the caller of
\* an existing entry gets that entry's connections
GocLookup(i) ==
    /\ tasks[i].kind = "goc" /\ tasks[i].pc = "check"
    /\ tasks' = [tasks EXCEPT ![i] =
          IF tasks[i].sess \in DOMAIN clientConnections
          THEN Task("goc", tasks[i].sess, "existing",
                    clientConnections[tasks[i].sess].Server1Client,
                    clientConnections[tasks[i].sess].Server2Client)
          ELSE [@ EXCEPT !.pc = "c1"]]
    /\ UNCHANGED <<issued, backendSessions, clientConnections, sessionMappings>>
    /\ UNCHANGED <<catalogVars, mediatorVars>>

\* createClientServer1Connection: fails only if the handshake fails
GocConnect1(i) ==
    /\ tasks[i].kind = "goc" /\ tasks[i].pc = "c1"
    /\ \E outcome \in Outcomes :
          /\ backendSessions' = OpenBackendSession(Server1Name, tasks[i].sess, outcome)
          /\ tasks' = [tasks EXCEPT ![i] =
                IF outcome = "err"
                THEN Returned(@, "failed")
                ELSE [@ EXCEPT !.pc = "c2",
                               !.c1 = Client(Server1Name, Len(backendSessions[Server1Name]) + 1)]]
    /\ UNCHANGED <<issued, clientConnections, sessionMappings>>
    /\ UNCHANGED <<catalogVars, mediatorVars>>

\* createClientServer2Connection
GocConnect2(i) ==
    /\ tasks[i].kind = "goc" /\ tasks[i].pc = "c2"
    /\ \E outcome \in Outcomes :
          /\ backendSessions' = OpenBackendSession(Server2Name, tasks[i].sess, outcome)
          /\ tasks' = [tasks EXCEPT ![i] =
                IF outcome = "err"
                THEN Returned(@, "failed")
                ELSE [@ EXCEPT !.pc = "store",
                               !.c2 = Client(Server2Name, Len(backendSessions[Server2Name]) + 1)]]
    /\ UNCHANGED <<issued, clientConnections, sessionMappings>>
    /\ UNCHANGED <<catalogVars, mediatorVars>>

\* getOrCreateClientConnections: g.clientConnections[clientSessionID] = connections
GocStore(i) ==
    /\ tasks[i].kind = "goc" /\ tasks[i].pc = "store"
    /\ clientConnections' =
          MapPut(clientConnections, tasks[i].sess,
                 Connections(tasks[i].sess,
                             tasks[i].c1, GetSessionId(tasks[i].c1),
                             tasks[i].c2, GetSessionId(tasks[i].c2)))
    /\ tasks' = [tasks EXCEPT ![i] = Returned(@, "done")]
    /\ UNCHANGED <<issued, backendSessions, sessionMappings>>
    /\ UNCHANGED <<catalogVars, mediatorVars>>

GatewayNext ==
    \/ \E sess \in SessionIds : GatewayClientInitialize(sess)
    \/ \E sess \in SessionIds : routeToolCallGateway(sess)
    \/ \E i \in DOMAIN tasks : GocLookup(i)
    \/ \E i \in DOMAIN tasks : GocConnect1(i)
    \/ \E i \in DOMAIN tasks : GocConnect2(i)
    \/ \E i \in DOMAIN tasks : GocStore(i)

SpecGateway == RegistryInit /\ [][GatewayNext]_vars

----------------------------------------------------------------------------
(* JSON bodies.  A value is a string, a number or an object; a body is the  *)
(* byte string (here: token string) that encodes an object.  Clients write  *)
(* the keys in the order of the protocol structs; encoding/json writes the  *)
(* keys of a map in sorted order.                                           *)

JStr(s) == [t |-> "str", s |-> s, m |-> EmptyMap]
JNum(n) == [t |-> "num", s |-> <<Digit(n)>>, m |-> EmptyMap]
JObj(m) == [t |-> "obj", s |-> <<>>, m |-> m]

\* a number written with the given decimal digits
JNumeral(digits) == [t |-> "num", s |-> digits, m |-> EmptyMap]

DigitValue(c) == CHOOSE n \in 0..9 : Digit(n) = c

\* the numeral after a numeral
RECURSIVE Succ(_)
Succ(digits) ==
    IF digits = <<>> THEN <<"1">>
    ELSE LET last == DigitValue(digits[Len(digits)])
             front == SubSeq(digits, 1, Len(digits) - 1)
         IN IF last < 9 THEN Append(front, Digit(last + 1))
            ELSE Append(Succ(front), "0")

\* the numeral before a numeral that does not end in 0
Pred(digits) ==
    Append(SubSeq(digits, 1, Len(digits) - 1), Digit(DigitValue(digits[Len(digits)]) - 1))

\* numerals of the same length, compared as numbers
RECURSIVE NumeralLeq(_, _)
NumeralLeq(a, b) ==
    IF a = <<>> THEN TRUE
    ELSE IF DigitValue(Head(a)) # DigitValue(Head(b))
    THEN DigitValue(Head(a)) < DigitValue(Head(b))
    ELSE NumeralLeq(Tail(a), Tail(b))

\* 2^53: up to it every integer is a float64
MaxExact == <<"9", "0", "0", "7", "1", "9", "9", "2", "5", "4", "7", "4", "0", "9", "9", "2">>

\* json.Unmarshal into map[string]any stores a number as a float64, and
\* json.Marshal writes an integral float64 below 1e21 with all its digits: the
\* numeral that comes back for an integer numeral without leading zeros of at
\* most 16 digits.  Between 2^53 and 2^54 the float64s are the even integers
\* and an odd one is rounded to the neighbour that is a multiple of 4.
Float64(digits) ==
    IF Len(digits) < Len(MaxExact) \/ NumeralLeq(digits, MaxExact) THEN digits
    ELSE LET n == Len(digits)
             low == 10 * DigitValue(digits[n - 1]) + DigitValue(digits[n])
         IN IF low % 2 = 0 THEN digits
            ELSE IF low % 4 = 1 THEN Pred(digits)
            ELSE Succ(digits)

\* the value json.Unmarshal stores for a value of the document
RECURSIVE Decode(_)
Decode(v) ==
    CASE v.t = "num" -> JNumeral(Float64(v.s))
      [] v.t = "obj" -> JObj([k \in DOMAIN v.m |-> Decode(v.m[k])])
      [] OTHER -> v

SortedRank ==
    [k \in {"arguments", "id", "jsonrpc", "method", "name", "params"} |->
        CASE k = "arguments" -> 1 [] k = "id" -> 2 [] k = "jsonrpc" -> 3
          [] k = "method" -> 4 [] k = "name" -> 5 [] k = "params" -> 6]

ClientRank ==
    [k \in {"arguments", "id", "jsonrpc", "method", "name", "params"} |->
        CASE k = "jsonrpc" -> 1 [] k = "id" -> 2 [] k = "method" -> 3
          [] k = "params" -> 4 [] k = "name" -> 5 [] k = "arguments" -> 6]

RECURSIVE KeysInOrder(_, _)
KeysInOrder(keys, rank) ==
    IF keys = {} THEN <<>>
    ELSE LET k == CHOOSE x \in keys : \A y \in keys : rank[x] <= rank[y]
         IN <<k>> \o KeysInOrder(keys \ {k}, rank)

RECURSIVE EncodeValue(_, _)
RECURSIVE EncodeFields(_, _, _)
EncodeFields(m, ks, rank) ==
    IF ks = <<>> THEN <<>>
    ELSE <<Head(ks), ":">> \o EncodeValue(m[Head(ks)], rank)
         \o (IF Len(ks) > 1 THEN <<",">> ELSE <<>>)
         \o EncodeFields(m, Tail(ks), rank)

EncodeValue(v, rank) ==
    CASE v.t = "str" -> <<"'">> \o v.s \o <<"'">>
      [] v.t = "num" -> v.s
      [] v.t = "obj" -> <<"{">> \o EncodeFields(v.m, KeysInOrder(DOMAIN v.m, rank), rank)
                        \o <<"}">>

\* json.Marshal of a map[string]any
Marshal(data) == EncodeValue(JObj(data), SortedRank)

\* the bytes a client sends for a document
ClientBytes(data) == EncodeValue(JObj(data), ClientRank)

V20 == <<"2", ".", "0">>
ToolsCall == <<"t", "o", "o", "l", "s", "/", "c", "a", "l", "l">>
ToolsList == <<"t", "o", "o", "l", "s", "/", "l", "i", "s", "t">>
HelperInfo == <<"h", "e", "l", "p", "e", "r", "_", "i", "n", "f", "o">>
Echo == <<"e", "c", "h", "o">>

\* a tools/call request for the tool `name`
CallDoc(name) ==
    [k \in {"jsonrpc", "id", "method", "params"} |->
        CASE k = "jsonrpc" -> JStr(V20)
          [] k = "id" -> JNum(1)
          [] k = "method" -> JStr(ToolsCall)
          [] k = "params" ->
                JObj([p \in {"name", "arguments"} |->
                        IF p = "name" THEN JStr(name) ELSE JObj(EmptyMap)])]

\* a document with params.name set to a value
WithNameValue(data, v) ==
    MapPut(data, "params", JObj(MapPut(data["params"].m, "name", v)))

\* a tools/list request
ListDoc ==
    [k \in {"jsonrpc", "id", "method"} |->
        CASE k = "jsonrpc" -> JStr(V20)
          [] k = "id" -> JNum(2)
          [] k = "method" -> JStr(ToolsList)]

\* the tool names clients call
CalledNames ==
    { Server1Name \o <<"-">> \o Echo,
      Server2Name \o <<"-">> \o Echo,
      HelperInfo,
      Server1Name,
      <<"s", "e", "r", "v", "e", "r", "3", "-", "x">>,
      <<"S", "e", "r", "v", "e", "r", "1", "-">> \o Echo }

\* the documents clients send
Documents == {CallDoc(n) : n \in CalledNames} \cup {ListDoc}

V10 == <<"1", ".", "0">>

Server1Echo == Server1Name \o <<"-">> \o Echo

\* 2^53 + 1
LargeID == <<"9", "0", "0", "7", "1", "9", "9", "2", "5", "4", "7", "4", "0", "9", "9", "3">>

\* a call of server1-echo whose fields are all but what a tool call needs
Without(data, key) == [k \in DOMAIN data \ {key} |-> data[k]]

MalformedCalls ==
    { Without(CallDoc(Server1Echo), "jsonrpc"),
      MapPut(CallDoc(Server1Echo), "jsonrpc", JStr(V10)),
      MapPut(CallDoc(Server1Echo), "jsonrpc", JNum(2)),
      Without(CallDoc(Server1Echo), "method"),
      MapPut(CallDoc(Server1Echo), "method", JNum(1)),
      Without(CallDoc(Server1Echo), "params"),
      MapPut(CallDoc(Server1Echo), "params", JStr(Server1Echo)),
      MapPut(CallDoc(Server1Echo), "params", JObj([p \in {"arguments"} |-> JObj(EmptyMap)])),
      WithNameValue(CallDoc(Server1Echo), JNum(1)),
      CallDoc(<<>>) }

\* calls of server1-echo and server2-echo with a large id, and with arguments;
\* calls of the name that is a prefix alone, and of a name with two prefixes
WellFormedCalls ==
    { MapPut(CallDoc(Server1Echo), "id", JNumeral(LargeID)),
      MapPut(CallDoc(Server2Name \o <<"-">> \o Echo), "params",
             JObj([p \in {"name", "arguments"} |->
                     IF p = "name" THEN JStr(Server2Name \o <<"-">> \o Echo)
                     ELSE JObj([a \in {"id"} |-> JNum(7)])])),
      CallDoc(Server1Name \o <<"-">>),
      CallDoc(Server2Name \o <<"-">> \o Server1Echo) }

\* every document a client may send
AllDocuments == Documents \cup MalformedCalls \cup WellFormedCalls

\* bytes that are no JSON document
Garbage == <<"{", "jsonrpc">>

\* the bodies clients send
Bodies == {ClientBytes(d) : d \in Documents} \cup {Garbage}

\* the documents that are parsed: those sent, and those with a stripped name
Parsable == AllDocuments \cup {CallDoc(stripServerPrefix(n)) : n \in CalledNames}

\* the byte strings that encode a document, each with the document
Encodings ==
    {[bytes |-> ClientBytes(d), data |-> Decode(JObj(d)).m] : d \in Parsable}
    \cup {[bytes |-> Marshal(d), data |-> Decode(JObj(d)).m] : d \in Parsable}

\* json.Unmarshal(bytes, &requestBody): the map the bytes encode, or an error
Unmarshal(bytes) ==
    LET hits == {c \in Encodings : c.bytes = bytes}
    IN IF hits = {} THEN [err |-> TRUE, data |-> EmptyMap]
       ELSE [err |-> FALSE, data |-> (CHOOSE c \in hits : TRUE).data]

----------------------------------------------------------------------------
(* The mediator's handlers.  Header keys are strings, header values and     *)
(* bodies are byte strings.                                                 *)

ToLower(key) ==
    CASE key = "Mcp-Session-Id" -> "mcp-session-id"
      [] key = "Content-Type" -> "content-type"
      [] OTHER -> key

Header(key, value) == [Key |-> key, RawValue |-> value]

HttpHeaders(headers, endOfStream) ==
    [isNil |-> FALSE, Headers |-> headers, EndOfStream |-> endOfStream]

NoBodyMutation == [type |-> "none", Body |-> <<>>, EndOfStream |-> FALSE]

\* a ProcessingResponse of one of the phase kinds with its CommonResponse
ProcessingResponse(kind, clearRouteCache, setHeaders, bodyMutation) ==
    [kind |-> kind, ClearRouteCache |-> clearRouteCache, SetHeaders |-> setHeaders,
     BodyMutation |-> bodyMutation, Code |-> 0, Message |-> ""]

EmptyResponse(kind) == ProcessingResponse(kind, FALSE, <<>>, NoBodyMutation)

Min(S) == CHOOSE x \in S : \A y \in S : x <= y

RECURSIVE Itoa(_)
Itoa(n) == IF n < 10 THEN <<Digit(n)>> ELSE Itoa(n \div 10) \o <<Digit(n % 10)>>

\* A name extraction that does not look at jsonrpc.
extractMCPToolNameAnyVersion(data) ==
    IF "method" \notin DOMAIN data THEN <<>>
    ELSE IF data["method"].t # "str" THEN <<>>
    ELSE IF data["method"].s # ToolsCall THEN <<>>
    ELSE IF "params" \notin DOMAIN data THEN <<>>
    ELSE IF data["params"].t # "obj" THEN <<>>
    ELSE IF "name" \notin DOMAIN data["params"].m THEN <<>>
    ELSE IF data["params"].m["name"].t # "str" THEN <<>>
    ELSE data["params"].m["name"].s

extractMCPToolName(data) ==
    IF "jsonrpc" \notin DOMAIN data THEN <<>>
    ELSE IF data["jsonrpc"].t # "str" \/ data["jsonrpc"].s # V20 THEN <<>>
    ELSE IF "method" \notin DOMAIN data THEN <<>>
    ELSE IF data["method"].t # "str" THEN <<>>
    ELSE IF data["method"].s # ToolsCall THEN <<>>
    ELSE IF "params" \notin DOMAIN data THEN <<>>
    ELSE IF data["params"].t # "obj" THEN <<>>
    ELSE IF "name" \notin DOMAIN data["params"].m THEN <<>>
    ELSE IF data["params"].m["name"].t # "str" THEN <<>>
    ELSE data["params"].m["name"].s

extractSessionFromContext(stored) ==
    IF stored.isNil THEN <<>>
    ELSE LET hits == {i \in 1..Len(stored.Headers) :
                        ToLower(stored.Headers[i].Key) = "mcp-session-id"}
         IN IF hits = {} THEN <<>> ELSE stored.Headers[Min(hits)].RawValue

addStreamedBodyResponse(responses, requestBodyBytes) ==
    Append(responses,
           ProcessingResponse("RequestBody", FALSE, <<>>,
                [type |-> "streamed", Body |-> requestBodyBytes, EndOfStream |-> TRUE]))

\* A routing response that puts both mutations in one RequestBody response
\* whatever the mode.
createBufferedRoutingResponse(strm, toolName, bodyBytes, routeTarget, backendSession) ==
    <<ProcessingResponse("RequestBody", TRUE,
         <<Header("x-mcp-toolname", toolName), Header("x-mcp-server", routeTarget),
           Header("content-length", Itoa(Len(bodyBytes)))>>,
         [type |-> "body", Body |-> bodyBytes, EndOfStream |-> FALSE])>>

\* A routing response whose x-mcp-toolname is the name without its prefix.
createRoutingResponseNamingStripped(strm, toolName, bodyBytes, routeTarget, backendSession) ==
    LET headers ==
            <<Header("x-mcp-toolname", stripServerPrefix(toolName)),
              Header("x-mcp-server", routeTarget)>>
            \o (IF backendSession # <<>>
                THEN <<Header("mcp-session-id", backendSession)>> ELSE <<>>)
            \o <<Header("content-length", Itoa(Len(bodyBytes)))>>
    IN IF strm
       THEN addStreamedBodyResponse(
                <<ProcessingResponse("RequestHeaders", TRUE, headers, NoBodyMutation)>>,
                bodyBytes)
       ELSE <<ProcessingResponse("RequestBody", TRUE, headers,
                [type |-> "body", Body |-> bodyBytes, EndOfStream |-> FALSE])>>

\* A routing response that leaves the cached route in place.
createRoutingResponseKeepingRoute(strm, toolName, bodyBytes, routeTarget, backendSession) ==
    LET headers ==
            <<Header("x-mcp-toolname", toolName), Header("x-mcp-server", routeTarget)>>
            \o (IF backendSession # <<>>
                THEN <<Header("mcp-session-id", backendSession)>> ELSE <<>>)
            \o <<Header("content-length", Itoa(Len(bodyBytes)))>>
    IN IF strm
       THEN addStreamedBodyResponse(
                <<ProcessingResponse("RequestHeaders", FALSE, headers, NoBodyMutation)>>,
                bodyBytes)
       ELSE <<ProcessingResponse("RequestBody", FALSE, headers,
                [type |-> "body", Body |-> bodyBytes, EndOfStream |-> FALSE])>>

\* A routing response whose content-length is that of the body before the
\* prefix and its dash were taken off the name.
createRoutingResponseOldLength(strm, toolName, bodyBytes, routeTarget, backendSession) ==
    LET headers ==
            <<Header("x-mcp-toolname", toolName), Header("x-mcp-server", routeTarget)>>
            \o (IF backendSession # <<>>
                THEN <<Header("mcp-session-id", backendSession)>> ELSE <<>>)
            \o <<Header("content-length", Itoa(Len(bodyBytes) + Len(routeTarget) + 1))>>
    IN IF strm
       THEN addStreamedBodyResponse(
                <<ProcessingResponse("RequestHeaders", TRUE, headers, NoBodyMutation)>>,
                bodyBytes)
       ELSE <<ProcessingResponse("RequestBody", TRUE, headers,
                [type |-> "body", Body |-> bodyBytes, EndOfStream |-> FALSE])>>

createRoutingResponse(strm, toolName, bodyBytes, routeTarget, backendSession) ==
    LET headers ==
            <<Header("x-mcp-toolname", toolName), Header("x-mcp-server", routeTarget)>>
            \o (IF backendSession # <<>>
                THEN <<Header("mcp-session-id", backendSession)>> ELSE <<>>)
            \o <<Header("content-length", Itoa(Len(bodyBytes)))>>
    IN IF strm
       THEN addStreamedBodyResponse(
                <<ProcessingResponse("RequestHeaders", TRUE, headers, NoBodyMutation)>>,
                bodyBytes)
       ELSE <<ProcessingResponse("RequestBody", TRUE, headers,
                [type |-> "body", Body |-> bodyBytes, EndOfStream |-> FALSE])>>

\* An empty answer to a body that is a RequestHeaders response in both modes.
createEmptyBodyResponseAsHeaders(strm) == <<EmptyResponse("RequestHeaders")>>

createEmptyBodyResponse(strm) ==
    IF strm THEN <<EmptyResponse("RequestHeaders")>> ELSE <<EmptyResponse("RequestBody")>>

createErrorResponse(message, statusCode) ==
    <<[kind |-> "ImmediateResponse", ClearRouteCache |-> FALSE, SetHeaders |-> <<>>,
       BodyMutation |-> NoBodyMutation, Code |-> statusCode, Message |-> message]>>

HandleRequestHeaders == <<EmptyResponse("RequestHeaders")>>

\* the request body with params.name replaced
WithName(data, name) ==
    IF "params" \in DOMAIN data /\ data["params"].t = "obj"
    THEN MapPut(data, "params", JObj(MapPut(data["params"].m, "name", JStr(name))))
    ELSE data

\* A body handler that lets a call without a session, or without a registry to
\* look it up in, go on unrouted.
HandleRequestBodyLenient(strm, stored, data) ==
    LET toolName == extractMCPToolName(data)
        routeTarget == getRouteTargetFromTool(toolName)
        strippedToolName == stripServerPrefix(toolName)
        requestBodyBytes == Marshal(WithName(data, strippedToolName))
        helperSession == extractSessionFromContext(stored)
        lookup == GetSessionMapping(helperSession)
        backendSession == IF routeTarget = Server1Name
                          THEN lookup.mapping.Server1SessionID
                          ELSE lookup.mapping.Server2SessionID
    IN IF toolName = <<>> THEN createEmptyBodyResponse(strm)
       ELSE IF routeTarget = <<>> THEN createEmptyBodyResponse(strm)
       ELSE IF helperSession = <<>> THEN createEmptyBodyResponse(strm)
       ELSE IF ~helper THEN createEmptyBodyResponse(strm)
       ELSE IF ~lookup.found THEN createErrorResponse("Session mapping not found", 500)
       ELSE createRoutingResponse(strm, toolName, requestBodyBytes, routeTarget,
                                  backendSession)

\* main.go attaches the helper at construction; the standalone ext-proc runs
\* with a nil helper
HandleRequestBody(strm, stored, data) ==
    LET toolName == extractMCPToolName(data)
        routeTarget == getRouteTargetFromTool(toolName)
        strippedToolName == stripServerPrefix(toolName)
        requestBodyBytes == Marshal(WithName(data, strippedToolName))
        helperSession == extractSessionFromContext(stored)
        lookup == GetSessionMapping(helperSession)
        backendSession == IF routeTarget = Server1Name
                          THEN lookup.mapping.Server1SessionID
                          ELSE lookup.mapping.Server2SessionID
    IN IF toolName = <<>> THEN createEmptyBodyResponse(strm)
       ELSE IF routeTarget = <<>> THEN createEmptyBodyResponse(strm)
       ELSE IF helperSession = <<>> THEN createErrorResponse("No session ID found", 400)
       ELSE IF ~helper THEN createErrorResponse("Helper not available", 500)
       ELSE IF ~lookup.found THEN createErrorResponse("Session mapping not found", 500)
       ELSE createRoutingResponse(strm, toolName, requestBodyBytes, routeTarget,
                                  backendSession)

ConventionLen == 16

\* A response-header handler that takes the first ConventionLen bytes off
\* every session id longer than that.
HandleResponseHeadersTrimmingAll(headers) ==
    LET mcpSessionID == extractSessionFromContext(headers)
    IN IF headers.isNil \/ Len(mcpSessionID) <= ConventionLen
       THEN <<EmptyResponse("ResponseHeaders")>>
       ELSE <<ProcessingResponse("ResponseHeaders", FALSE,
                <<Header("mcp-session-id",
                         SubSeq(mcpSessionID, ConventionLen + 1, Len(mcpSessionID)))>>,
                NoBodyMutation)>>

HandleResponseHeaders(headers) ==
    LET mcpSessionID == extractSessionFromContext(headers)
        s1 == Server1Name \o <<"-", "s", "e", "s", "s", "i", "o", "n", "-">>
        s2 == Server2Name \o <<"-", "s", "e", "s", "s", "i", "o", "n", "-">>
    IN IF headers.isNil \/ mcpSessionID = <<>> THEN <<EmptyResponse("ResponseHeaders")>>
       ELSE IF HasPrefix(mcpSessionID, s1) \/ HasPrefix(mcpSessionID, s2)
       THEN <<ProcessingResponse("ResponseHeaders", FALSE,
                <<Header("mcp-session-id",
                         SubSeq(mcpSessionID, ConventionLen + 1, Len(mcpSessionID)))>>,
                NoBodyMutation)>>
       ELSE <<EmptyResponse("ResponseHeaders")>>

HandleResponseBody == <<EmptyResponse("ResponseBody")>>

----------------------------------------------------------------------------
(* Server.Process: one call per stream, that is per HTTP exchange; every    *)
(* call runs on the one Server registered in main().  Each action is one    *)
(* turn of the loop: a message received, handled, its responses sent.       *)

\* the chunks Envoy cuts a streamed body into
MaxChunks == 2

RECURSIVE ChunksOf(_, _)
ChunksOf(bytes, n) ==
    IF n = 1 THEN <<bytes>>
    ELSE LET k == Len(bytes) \div n
         IN <<SubSeq(bytes, 1, k)>> \o ChunksOf(SubSeq(bytes, k + 1, Len(bytes)), n - 1)

RECURSIVE Concat(_)
Concat(chunks) == IF chunks = <<>> THEN <<>> ELSE Head(chunks) \o Concat(Tail(chunks))

BufferedDeliveries == {ChunksOf(b, 1) : b \in Bodies}

StreamedDeliveries == {ChunksOf(b, n) : b \in Bodies, n \in 1..MaxChunks}

\* a buffered body arrives whole, a streamed one in chunks
Deliveries == IF streaming THEN StreamedDeliveries ELSE BufferedDeliveries

JsonType == <<"j", "s", "o", "n">>

\* the headers of a client's request in the session sess (none if empty)
ClientHeaders(sess) ==
    <<Header("Content-Type", JsonType)>>
    \o (IF sess = <<>> THEN <<>> ELSE <<Header("Mcp-Session-Id", sess)>>)

\* the session header values a backend's response may carry: none, a session
\* id the backend has issued, or an id in the serverN-session-<id> form
ConventionalID == Server1Name \o <<"-", "s", "e", "s", "s", "i", "o", "n", "-">> \o G1

UpstreamSessions ==
    {<<>>, ConventionalID}
    \cup {sessionMappings[s].Server1SessionID : s \in DOMAIN sessionMappings}
    \cup {sessionMappings[s].Server2SessionID : s \in DOMAIN sessionMappings}

Immediate(responses) ==
    \E i \in 1..Len(responses) : responses[i].kind = "ImmediateResponse"

\* case ProcessingRequest_RequestHeaders; main() starts the gRPC server that
\* calls Process only after initializeBackends has returned nil
RecvRequestHeaders(e, sess, endOfStream) ==
    /\ phase = "serving"
    /\ streams[e].next = "idle"
    /\ requestHeaders' = HttpHeaders(ClientHeaders(sess), endOfStream)
    /\ streams' = [streams EXCEPT ![e] =
          [IdleStream EXCEPT
              !.next = IF endOfStream THEN "responseHeaders" ELSE "requestBody",
              !.on = "RequestHeaders",
              !.own = sess,
              !.responses = IF streaming /\ ~endOfStream THEN <<>>
                            ELSE HandleRequestHeaders]]
    /\ UNCHANGED <<streaming, helper, catalogVars, registryVars>>

\* A body handler that keeps only the chunk at hand.
processLastChunk(strm, buffered, chunk, endOfStream, stored) ==
    IF strm /\ ~endOfStream
    THEN [streamedBody |-> chunk, sent |-> FALSE, err |-> FALSE, responses |-> <<>>]
    ELSE IF ~strm /\ Unmarshal(chunk).err
    THEN [streamedBody |-> chunk, sent |-> TRUE, err |-> TRUE, responses |-> <<>>]
    ELSE [streamedBody |-> chunk, sent |-> TRUE, err |-> FALSE,
          responses |-> HandleRequestBody(strm, stored, Unmarshal(chunk).data)]

\* processRequestBody: the buffer after the chunk, the responses to send and
\* whether the call returned an error; sent is FALSE for the streaming
\* "return nil, nil" of a chunk without end of stream
processRequestBody(strm, buffered, chunk, endOfStream, stored) ==
    LET buffer == IF strm THEN buffered \o chunk ELSE buffered
        parsed == Unmarshal(IF strm THEN buffer ELSE chunk)
    IN IF strm /\ ~endOfStream
       THEN [streamedBody |-> buffer, sent |-> FALSE, err |-> FALSE,
             responses |-> <<>>]
       ELSE IF ~strm /\ parsed.err
       THEN [streamedBody |-> buffer, sent |-> TRUE, err |-> TRUE,
             responses |-> <<>>]
       ELSE [streamedBody |-> buffer, sent |-> TRUE, err |-> FALSE,
             responses |-> HandleRequestBody(strm, stored, parsed.data)]

\* case ProcessingRequest_RequestBody, the body delivered in one of the ways
\* of deliveries
RecvRequestBodyOf(e, chunks, deliveries) ==
    LET st == streams[e]
        r == processRequestBody(streaming, st.streamedBody, Head(chunks),
                                Len(chunks) = 1, requestHeaders)
    IN /\ st.next = "requestBody"
       /\ chunks \in (IF st.rest = <<>> THEN deliveries ELSE {st.rest})
       /\ IF ~r.sent
          THEN streams' = [streams EXCEPT ![e] =
                  [st EXCEPT !.rest = Tail(chunks),
                             !.streamedBody = r.streamedBody,
                             !.on = "RequestBody",
                             !.responses = <<>>,
                             !.body = IF st.rest = <<>> THEN Concat(chunks) ELSE @]]
          ELSE streams' = [streams EXCEPT ![e] =
                  [st EXCEPT !.rest = <<>>,
                             !.streamedBody = r.streamedBody,
                             !.on = "RequestBody",
                             !.responses = r.responses,
                             !.err = r.err,
                             !.next = IF r.err \/ Immediate(r.responses) THEN "end"
                                      ELSE "responseHeaders",
                             !.body = IF st.rest = <<>> THEN Concat(chunks) ELSE @]]
       /\ UNCHANGED <<streaming, helper, requestHeaders, catalogVars, registryVars>>

RecvRequestBody(e, chunks) == RecvRequestBodyOf(e, chunks, Deliveries)

\* a response whose header map is absent
NoHeaderMap == <<"n", "i", "l">>

\* the headers of a backend's response with the session header value
UpstreamHeaders(value) ==
    IF value = NoHeaderMap THEN NilHeaders ELSE HttpHeaders(ClientHeaders(value), FALSE)

\* case ProcessingRequest_ResponseHeaders
RecvResponseHeaders(e, value) ==
    /\ streams[e].next = "responseHeaders"
    /\ streams' = [streams EXCEPT ![e] =
          [IdleStream EXCEPT
                    !.next = "responseBody",
                    !.on = "ResponseHeaders",
                    !.upstream = value,
                    !.responses = HandleResponseHeaders(UpstreamHeaders(value))]]
    /\ UNCHANGED <<streaming, helper, requestHeaders, catalogVars, registryVars>>

\* case ProcessingRequest_ResponseBody
RecvResponseBody(e) ==
    /\ streams[e].next = "responseBody"
    /\ streams' = [streams EXCEPT ![e] =
          [IdleStream EXCEPT
                    !.next = "responseTrailers",
                    !.on = "ResponseBody",
                    !.responses = HandleResponseBody]]
    /\ UNCHANGED <<streaming, helper, requestHeaders, catalogVars, registryVars>>

\* the default case of the switch: response trailers are no case of it
RecvResponseTrailers(e) ==
    /\ streams[e].next = "responseTrailers"
    /\ streams' = [streams EXCEPT ![e] =
          [IdleStream EXCEPT
                    !.next = "end",
                    !.on = "ResponseTrailers",
                    !.err = TRUE]]
    /\ UNCHANGED <<streaming, helper, requestHeaders, catalogVars, registryVars>>

\* Recv returns io.EOF, or Process has returned: the exchange is over
CloseStream(e) ==
    /\ streams[e].next \in {"responseTrailers", "end"}
    /\ streams' = [streams EXCEPT ![e] = IdleStream]
    /\ UNCHANGED <<streaming, helper, requestHeaders, catalogVars, registryVars>>

\* A cancellation that also forgets the mapping of the exchange's session.
CancelStreamForgettingSession(e) ==
    /\ streams[e].next \notin {"idle", "end"}
    /\ streams' = [streams EXCEPT ![e] =
          [IdleStream EXCEPT !.next = "end", !.on = "cancelled"]]
    /\ sessionMappings' =
          [s \in DOMAIN sessionMappings \ {streams[e].own} |-> sessionMappings[s]]
    /\ UNCHANGED <<issued, tasks, backendSessions, clientConnections>>
    /\ UNCHANGED <<streaming, helper, requestHeaders, catalogVars>>

\* the context of the exchange is cancelled: Process returns ctx.Err() at the
\* top of its loop, or nil when Recv reports the cancellation, whatever message
\* the exchange was waiting for
CancelStream(e) ==
    /\ streams[e].next \notin {"idle", "end"}
    /\ \E returned \in BOOLEAN :
          streams' = [streams EXCEPT ![e] =
              [IdleStream EXCEPT !.next = "end", !.on = "cancelled", !.err = returned]]
    /\ UNCHANGED <<streaming, helper, requestHeaders, catalogVars, registryVars>>

MediatorNext ==
    \/ \E e \in 1..MaxStreams, sess \in {<<>>} \cup SessionIds, eos \in BOOLEAN :
          RecvRequestHeaders(e, sess, eos)
    \/ \E e \in 1..MaxStreams :
          /\ streams[e].next = "requestBody"
          /\ \E chunks \in Deliveries \cup {streams[e].rest} : RecvRequestBody(e, chunks)
    \/ \E e \in 1..MaxStreams, value \in UpstreamSessions : RecvResponseHeaders(e, value)
    \/ \E e \in 1..MaxStreams : RecvResponseBody(e)
    \/ \E e \in 1..MaxStreams : RecvResponseTrailers(e)
    \/ \E e \in 1..MaxStreams : CloseStream(e)
    \/ \E e \in 1..MaxStreams : CancelStream(e)

\* the client handshakes made while the mediator serves
MaxServed == 1

\* the helper and the mediator in one process, the mediator in either mode.
\* The registry runs the steps of handleInitialization for the sessions of
\* MaxServed handshakes; the interleavings of several initialisations are those
\* of SpecRegistry.
Init == HelperServing /\ \E strm \in BOOLEAN : NewServer(strm, TRUE)

Next ==
    \/ \E sess \in SessionIds : Len(tasks) < MaxServed /\ ClientInitialize(sess)
    \/ \E i \in DOMAIN tasks : InitConnect1(i)
    \/ \E i \in DOMAIN tasks : InitConnect2(i)
    \/ \E i \in DOMAIN tasks : InitStoreConnections(i)
    \/ \E i \in DOMAIN tasks : InitStoreMapping(i)
    \/ MediatorNext

Spec == Init /\ [][Next]_vars

\* main() from its first line: the helper built by NewMCPHelper, the backends
\* listing one tool each, nothing discovered and nothing served yet
HelperBooting ==
    /\ NewServer(FALSE, TRUE)
    /\ phase = "boot"
    /\ backendTools = [b \in Backends |-> <<Tool(<<"e", "c", "h", "o">>, "d1")>>]
    /\ aggregatedTools = <<>>
    /\ issued = {}
    /\ tasks = <<>>
    /\ backendSessions = [b \in Backends |-> <<>>]
    /\ clientConnections = EmptyMap
    /\ sessionMappings = EmptyMap

\* startup discovery, then what the two listeners let in: client handshakes on
\* the HTTP listener, streams on the ext-proc gRPC listener
StartupNext ==
    \/ CatalogNext
    \/ \E sess \in SessionIds : ClientInitialize(sess)
    \/ \E e \in 1..MaxStreams, sess \in {<<>>} \cup SessionIds, eos \in BOOLEAN :
          RecvRequestHeaders(e, sess, eos)

SpecStartup == HelperBooting /\ [][StartupNext]_vars

\* the request headers of any other exchange, stored by its Process call in
\* the field of the one Server: all an exchange can see of the others
OtherRequestHeaders(sess, endOfStream) ==
    /\ requestHeaders' = HttpHeaders(ClientHeaders(sess), endOfStream)
    /\ UNCHANGED <<streaming, helper, streams, catalogVars, registryVars>>

\* one exchange, on stream 1, among any number of other exchanges
ExchangeNext ==
    \/ \E sess \in SessionIds : Len(tasks) < MaxServed /\ ClientInitialize(sess)
    \/ \E i \in DOMAIN tasks : InitConnect1(i)
    \/ \E i \in DOMAIN tasks : InitConnect2(i)
    \/ \E i \in DOMAIN tasks : InitStoreConnections(i)
    \/ \E i \in DOMAIN tasks : InitStoreMapping(i)
    \/ \E sess \in {<<>>} \cup SessionIds, eos \in BOOLEAN : RecvRequestHeaders(1, sess, eos)
    \/ /\ streams[1].next = "requestBody"
       /\ \E chunks \in Deliveries \cup {streams[1].rest} : RecvRequestBody(1, chunks)
    \/ \E value \in UpstreamSessions : RecvResponseHeaders(1, value)
    \/ RecvResponseBody(1)
    \/ RecvResponseTrailers(1)
    \/ CloseStream(1)
    \/ CancelStream(1)
    \/ \E sess \in {<<>>} \cup SessionIds, eos \in BOOLEAN : OtherRequestHeaders(sess, eos)

SpecExchange == Init /\ [][ExchangeNext]_vars

----------------------------------------------------------------------------
(* The mediator alone, on one exchange among others, over a registry that   *)
(* does not change: the handlers applied to every document and every        *)
(* response header.                                                         *)

\* the helper after the handshake of G1: its connections and mapping are stored
HelperWithSession ==
    /\ phase = "serving"
    /\ backendTools = [b \in Backends |-> <<Tool(<<"e", "c", "h", "o">>, "d1")>>]
    /\ aggregatedTools =
          PrefixTools(Server1Name \o <<"-">>, backendTools[Server1Name])
          \o PrefixTools(Server2Name \o <<"-">>, backendTools[Server2Name])
    /\ issued = {G1}
    /\ tasks = <<Returned(Task("init", G1, "map", NoClient, NoClient), "done")>>
    /\ backendSessions = [b \in Backends |->
          <<StartupSession(b), [client |-> G1, sid |-> FreshSessionID(b, 2)]>>]
    /\ clientConnections =
          MapPut(EmptyMap, G1,
                 Connections(G1, Client(Server1Name, 2), FreshSessionID(Server1Name, 2),
                             Client(Server2Name, 2), FreshSessionID(Server2Name, 2)))
    /\ sessionMappings =
          MapPut(EmptyMap, G1,
                 Mapping(G1, FreshSessionID(Server1Name, 2), FreshSessionID(Server2Name, 2)))

\* the mediator of main.go with its helper, or the standalone ext-proc, built
\* with handlers.NewServer(r.Streaming, nil), beside a helper that it cannot ask
MediatorInit ==
    /\ HelperServing \/ HelperWithSession
    /\ \E strm, attached \in BOOLEAN : NewServer(strm, attached)

\* the bodies of every document
AllBodies == {ClientBytes(d) : d \in AllDocuments} \cup {Garbage}

AllDeliveries ==
    IF streaming THEN {ChunksOf(b, n) : b \in AllBodies, n \in 1..MaxChunks}
    ELSE {ChunksOf(b, 1) : b \in AllBodies}

SessionInfix == <<"-", "s", "e", "s", "s", "i", "o", "n">>

\* the session header values of a backend's response: those of
\* UpstreamSessions, ids in and near the serverN-session-<id> form, and the
\* absent header map
UpstreamValues ==
    UpstreamSessions
    \cup { Server2Name \o SessionInfix \o <<"-">> \o G2,
           Server1Name \o SessionInfix \o <<"-">>,
           Server1Name \o SessionInfix,
           <<"S", "e", "r", "v", "e", "r", "1">> \o SessionInfix \o <<"-">> \o G1,
           <<"s", "e", "r", "v", "e", "r", "3">> \o SessionInfix \o <<"-">> \o G1,
           NoHeaderMap }

HandlersNext ==
    \/ \E sess \in {<<>>} \cup SessionIds, eos \in BOOLEAN : RecvRequestHeaders(1, sess, eos)
    \/ /\ streams[1].next = "requestBody"
       /\ \E chunks \in AllDeliveries \cup {streams[1].rest} :
             RecvRequestBodyOf(1, chunks, AllDeliveries)
    \/ \E value \in UpstreamValues : RecvResponseHeaders(1, value)
    \/ RecvResponseBody(1)
    \/ RecvResponseTrailers(1)
    \/ CloseStream(1)
    \/ CancelStream(1)
    \/ \E sess \in {<<>>} \cup SessionIds, eos \in BOOLEAN : OtherRequestHeaders(sess, eos)

SpecHandlers == MediatorInit /\ [][HandlersNext]_vars

----------------------------------------------------------------------------
(* C10: for every backend b and every tool t listed by b, the catalog name *)
(* "b-t" routes to b and stripping its prefix yields exactly t, also when  *)
(* t itself starts with another backend's prefix.                          *)

\* the catalog entry of the i-th tool of backend b
CatalogIndex(b, i) == IF b = Server1Name THEN i ELSE Len(backendTools[Server1Name]) + i

C10_RoundTrip ==
    phase = "serving" =>
        \A b \in Backends : \A i \in 1..Len(backendTools[b]) :
            LET q == aggregatedTools[CatalogIndex(b, i)].Name IN
            /\ getRouteTargetFromTool(q) = b
            /\ stripServerPrefix(q) = backendTools[b][i].Name

C10_Witness ==
    /\ phase = "serving"
    /\ \E i \in 1..Len(backendTools[Server1Name]) :
          /\ HasPrefix(backendTools[Server1Name][i].Name, Server2Name \o <<"-">>)
          /\ aggregatedTools[i].Name = Server1Name \o <<"-">> \o backendTools[Server1Name][i].Name

(* C19: after a successful discovery the catalog has one entry per listed    *)
(* tool: first the tools of server1 in the order listed, each named          *)
(* "server1-" + its name, then the tools of server2 in the order listed,     *)
(* each named "server2-" + its name; the rest of each tool is as listed.     *)
C19_CatalogContents ==
    phase = "serving" =>
        LET l1 == backendTools[Server1Name]
            l2 == backendTools[Server2Name]
        IN /\ Len(aggregatedTools) = Len(l1) + Len(l2)
           /\ \A i \in 1..Len(l1) :
                 /\ aggregatedTools[i].Name = <<"s", "e", "r", "v", "e", "r", "1", "-">> \o l1[i].Name
                 /\ aggregatedTools[i].Description = l1[i].Description
           /\ \A i \in 1..Len(l2) :
                 /\ aggregatedTools[Len(l1) + i].Name
                       = <<"s", "e", "r", "v", "e", "r", "2", "-">> \o l2[i].Name
                 /\ aggregatedTools[Len(l1) + i].Description = l2[i].Description

\* both backends list two tools and the catalog holds the four
C19_Witness ==
    /\ phase = "serving"
    /\ Len(backendTools[Server1Name]) = 2
    /\ Len(backendTools[Server2Name]) = 2
    /\ Len(aggregatedTools) = 4

----------------------------------------------------------------------------
(* Backend-side counting: the sessions backend b holds for gateway session s *)

SessionsOpenedFor(b, s) ==
    {n \in DOMAIN backendSessions[b] : backendSessions[b][n].client = s}

NoAttemptFailed == \A i \in DOMAIN tasks : tasks[i].pc # "failed"

(* C1: under any interleaving of first-time creation attempts for a gateway *)
(* session s, at most one backend connection is opened per (s, backend):    *)
(* as long as no attempt has failed, no backend holds two sessions for s.   *)
C1_NoDuplicateConnection ==
    NoAttemptFailed =>
        \A b \in Backends : \A s \in SessionIds :
            Cardinality(SessionsOpenedFor(b, s)) <= 1
(* C2: once a mapping for gateway session s is published, every later       *)
(* GetSessionMapping(s) returns the same backend session ids: no step       *)
(* changes the Server1SessionID or Server2SessionID of a published mapping. *)
C2_MappingImmutable ==
    [][\A s \in SessionIds :
          GetSessionMapping(s).found =>
              /\ GetSessionMapping(s)'.found
              /\ GetSessionMapping(s)'.mapping.Server1SessionID
                    = GetSessionMapping(s).mapping.Server1SessionID
              /\ GetSessionMapping(s)'.mapping.Server2SessionID
                    = GetSessionMapping(s).mapping.Server2SessionID]_vars

(* C8: two distinct gateway sessions with published mappings never resolve  *)
(* to the same backend session id on any backend, and no backend connection *)
(* is held by two gateway sessions.                                         *)
C8_SessionIsolation ==
    /\ \A s1, s2 \in DOMAIN sessionMappings :
          s1 # s2 =>
              /\ GetSessionMapping(s1).mapping.Server1SessionID
                    # GetSessionMapping(s2).mapping.Server1SessionID
              /\ GetSessionMapping(s1).mapping.Server2SessionID
                    # GetSessionMapping(s2).mapping.Server2SessionID
    /\ \A s1, s2 \in DOMAIN clientConnections :
          s1 # s2 =>
              /\ clientConnections[s1].Server1Client # clientConnections[s2].Server1Client
              /\ clientConnections[s1].Server2Client # clientConnections[s2].Server2Client

C8_Witness ==
    /\ DOMAIN sessionMappings = SessionIds
    /\ DOMAIN clientConnections = SessionIds

\* the attempts for gateway session s, other than i, that are at one of the places pcs
OtherAttempts(i, s, pcs) ==
    {j \in DOMAIN tasks \ {i} : tasks[j].sess = s /\ tasks[j].pc \in pcs}

(* C17: an attempt to create the connections of gateway session s that has   *)
(* failed (a handshake failed or gave an empty session id) holds nothing and *)
(* has published nothing: a connection entry or a mapping of s, if there is  *)
(* one, was stored by another attempt that got past both handshakes.  No     *)
(* attempt repeats a handshake: a backend holds no more sessions for s than  *)
(* attempts for s have reached it.                                           *)
C17_FailedCreationPublishesNothing ==
    /\ \A i \in DOMAIN tasks :
          tasks[i].pc = "failed"
          => /\ tasks[i].c1 = NoClient /\ tasks[i].c2 = NoClient
             /\ tasks[i].sess \in DOMAIN clientConnections
                   => OtherAttempts(i, tasks[i].sess, {"map", "done"}) # {}
             /\ tasks[i].sess \in DOMAIN sessionMappings
                   => OtherAttempts(i, tasks[i].sess, {"done"}) # {}
    /\ \A s \in SessionIds :
          /\ Cardinality(SessionsOpenedFor(Server1Name, s))
                <= Cardinality(OtherAttempts(0, s, {"c2", "store", "map", "done", "failed"}))
          /\ Cardinality(SessionsOpenedFor(Server2Name, s))
                <= Cardinality(OtherAttempts(0, s, {"store", "map", "done", "failed"}))

\* the first attempt for a session failed at server2 and a later attempt for the
\* same session has published the mapping of its own two backend sessions
C17_Witness ==
    /\ Len(tasks) = 2
    /\ tasks[1].sess = G1 /\ tasks[1].pc = "failed"
    /\ tasks[2].sess = G1 /\ tasks[2].pc = "done"
    /\ Cardinality(SessionsOpenedFor(Server1Name, G1)) = 2
    /\ G1 \in DOMAIN clientConnections
    /\ GetSessionMapping(G1).found
    /\ GetSessionMapping(G1).mapping.Server1SessionID = FreshSessionID(Server1Name, 3)

\* the tools registered with the MCP server: helper_info by setupHandlers, the
\* catalog by registerAggregatedTools
RegisteredTools == {HelperInfo} \cup {aggregatedTools[i].Name : i \in DOMAIN aggregatedTools}

(* C18: when a startup handshake or a startup tool listing of either backend *)
(* has failed, the helper has stopped with nothing published: the catalog is *)
(* empty, helper_info is the only tool registered, no client handshake was   *)
(* ever served by the HTTP listener and no stream was ever opened on the     *)
(* ext-proc listener; and the helper never leaves that state.                *)
C18_FailedDiscoveryServesNothing ==
    phase = "fatal"
    => /\ aggregatedTools = <<>>
       /\ RegisteredTools = {HelperInfo}
       /\ issued = {} /\ tasks = <<>>
       /\ requestHeaders = NilHeaders
       /\ \A e \in 1..MaxStreams : streams[e] = IdleStream
       /\ ~ENABLED StartupNext

\* discovery has failed
C18_Witness == phase = "fatal" /\ aggregatedTools = <<>> /\ issued = {}

----------------------------------------------------------------------------
(* Claims about the mediator.  A step completes the request body of stream  *)
(* e when Process handles the chunk that ends the body.                      *)

BodyCompleted(e) ==
    /\ streams[e].next = "requestBody"
    /\ streams'[e].on = "RequestBody"
    /\ streams'[e].next # "requestBody"

\* the tools the backends list
BackendTools == {Echo}

\* the body stream e has received is a call of tool t of backend b
RoutedCall(e, b, t) == streams'[e].body = ClientBytes(CallDoc(b \o <<"-">> \o t))

\* the headers set by a list of responses
SetHeadersOf(responses) ==
    UNION {{responses[i].SetHeaders[j] : j \in 1..Len(responses[i].SetHeaders)} :
              i \in 1..Len(responses)}

HeaderSet(responses, key, value) ==
    \E h \in SetHeadersOf(responses) : h.Key = key /\ h.RawValue = value

BackendSessionOf(mapping, b) ==
    IF b = Server1Name THEN mapping.Server1SessionID ELSE mapping.Server2SessionID

(* C3: with several exchanges in flight, the session read when an exchange's *)
(* request body is processed is the one of that exchange's own request       *)
(* headers, and the buffered body bytes are its own: while a stream awaits   *)
(* its body, the stored request headers carry its own mcp-session-id and its *)
(* buffer holds exactly the chunks of its own body received so far.          *)
C3_ExchangeIsolation ==
    \A e \in 1..MaxStreams :
        streams[e].next = "requestBody" =>
            /\ extractSessionFromContext(requestHeaders) = streams[e].own
            /\ streams[e].rest # <<>> =>
                  streams[e].streamedBody \o Concat(streams[e].rest) = streams[e].body

(* C4: a tools/call of "b-t" in an exchange whose request carries session S, *)
(* with S mapped by the registry to X for backend b, is answered by a        *)
(* mutation with x-mcp-server = b, mcp-session-id = X and no other session   *)
(* value, and a body whose params.name is t.                                 *)
C4_RoutedRewrite ==
    [][\A e \in 1..MaxStreams : \A b \in Backends : \A t \in BackendTools :
          (/\ BodyCompleted(e)
           /\ RoutedCall(e, b, t)
           /\ streams[e].own # <<>>
           /\ GetSessionMapping(streams[e].own).found)
          => LET X == BackendSessionOf(GetSessionMapping(streams[e].own).mapping, b)
                 out == streams'[e].responses
             IN /\ HeaderSet(out, "x-mcp-server", b)
                /\ HeaderSet(out, "mcp-session-id", X)
                /\ \A h \in SetHeadersOf(out) :
                      h.Key = "mcp-session-id" => h.RawValue = X
                /\ \E i \in 1..Len(out) :
                      /\ out[i].BodyMutation.type # "none"
                      /\ extractMCPToolName(Unmarshal(out[i].BodyMutation.Body).data) = t
      ]_vars

(* C5: a tools/call with a backend prefix in an exchange whose session S has *)
(* no mapping in the registry is answered by exactly one message, an         *)
(* immediate response with status 500, without header or body mutation, and  *)
(* the exchange ends there.                                                  *)
C5_MissingMappingFailsFast ==
    [][\A e \in 1..MaxStreams : \A b \in Backends : \A t \in BackendTools :
          (/\ BodyCompleted(e)
           /\ RoutedCall(e, b, t)
           /\ streams[e].own # <<>>
           /\ ~GetSessionMapping(streams[e].own).found)
          => LET out == streams'[e].responses
             IN /\ Len(out) = 1
                /\ out[1].kind = "ImmediateResponse"
                /\ out[1].Code = 500
                /\ out[1].SetHeaders = <<>>
                /\ out[1].BodyMutation.type = "none"
                /\ streams'[e].next = "end"
      ]_vars

(* C6: every mcp-session-id the mediator sets on a request is a backend      *)
(* session id of the registry's mapping of the exchange's own gateway        *)
(* session.                                                                  *)
C6_NoFabricatedSession ==
    [][\A e \in 1..MaxStreams :
          BodyCompleted(e) =>
              \A h \in SetHeadersOf(streams'[e].responses) :
                  h.Key = "mcp-session-id" =>
                      LET lookup == GetSessionMapping(streams[e].own)
                      IN /\ lookup.found
                         /\ h.RawValue \in {lookup.mapping.Server1SessionID,
                                            lookup.mapping.Server2SessionID}
      ]_vars

(* C7: a response whose mcp-session-id is a backend session id that the      *)
(* registry maps to gateway session S is answered by a header mutation that  *)
(* sets mcp-session-id to S.                                                 *)
C7_ResponseReverseMapping ==
    [][\A e \in 1..MaxStreams : \A S \in DOMAIN sessionMappings :
          (/\ streams[e].next = "responseHeaders"
           /\ streams'[e].on = "ResponseHeaders"
           /\ streams'[e].upstream \in {sessionMappings[S].Server1SessionID,
                                        sessionMappings[S].Server2SessionID})
          => HeaderSet(streams'[e].responses, "mcp-session-id", S)
      ]_vars

(* C9: a tools/call in a session issued by a completed client handshake is   *)
(* never rejected with "Session mapping not found" while no backend          *)
(* handshake has failed, also when it arrives before handleInitialization    *)
(* has published the mapping.                                                *)
C9_CallBeforePublication ==
    [][\A e \in 1..MaxStreams : \A b \in Backends : \A t \in BackendTools :
          (/\ BodyCompleted(e)
           /\ RoutedCall(e, b, t)
           /\ streams[e].own \in issued
           /\ NoAttemptFailed)
          => \A i \in 1..Len(streams'[e].responses) :
                ~(/\ streams'[e].responses[i].kind = "ImmediateResponse"
                  /\ streams'[e].responses[i].Message = "Session mapping not found")
      ]_vars

\* Process has handled the chunk that ends the request body of stream e, and
\* the responses of the stream are those for that body
BodyHandled(e) ==
    /\ streams[e].on = "RequestBody"
    /\ streams[e].next # "requestBody"

\* the body stream e has received is a tools/call of the name n
CallOf(e, n) == streams[e].body = ClientBytes(CallDoc(n))

\* the one response that mutates nothing, of the kind the mode answers a body with
NoMutation(responses) ==
    /\ Len(responses) = 1
    /\ responses[1].kind \in {"RequestHeaders", "RequestBody"}
    /\ responses[1].SetHeaders = <<>>
    /\ ~responses[1].ClearRouteCache
    /\ responses[1].BodyMutation.type = "none"

Unprefixed(n) ==
    /\ ~HasPrefix(n, Server1Name \o <<"-">>)
    /\ ~HasPrefix(n, Server2Name \o <<"-">>)

(* C11: a tools/call whose name starts with neither "server1-" nor          *)
(* "server2-" is answered, whatever the stored request headers and the      *)
(* registry hold, by the one response that sets no header, clears no route  *)
(* and carries no body, and the request goes on to the response phase.      *)
C11_UnprefixedNeverRouted ==
    \A e \in 1..MaxStreams : \A n \in CalledNames :
        (BodyHandled(e) /\ CallOf(e, n) /\ Unprefixed(n))
        => /\ NoMutation(streams[e].responses)
           /\ streams[e].next = "responseHeaders"
           /\ ~streams[e].err

C11_Witness ==
    /\ BodyHandled(1)
    /\ streams[1].body = ClientBytes(CallDoc(Server1Name))
    /\ streams[1].own \in DOMAIN sessionMappings
    /\ extractSessionFromContext(requestHeaders) = streams[1].own
    /\ NoMutation(streams[1].responses)

(* C12: every message received on a stream is answered with a response of   *)
(* its own kind and Process goes on: request headers (at once, or with the  *)
(* body when streaming defers them), a request body that parses, response   *)
(* headers, response bodies and response trailers; the responses to         *)
(* response bodies and response trailers mutate nothing.                    *)
C12_EveryMessageAnswered ==
    \A e \in 1..MaxStreams :
        LET st == streams[e] IN
        /\ (st.on = "RequestHeaders" /\ ~(streaming /\ st.next = "requestBody"))
              => (~st.err /\ st.responses = <<EmptyResponse("RequestHeaders")>>)
        /\ (BodyHandled(e) /\ ~Unmarshal(st.body).err)
              => (~st.err /\ st.responses # <<>>)
        /\ st.on = "ResponseHeaders"
              => (/\ ~st.err
                  /\ Len(st.responses) = 1
                  /\ st.responses[1].kind = "ResponseHeaders")
        /\ st.on = "ResponseBody"
              => (~st.err /\ st.responses = <<EmptyResponse("ResponseBody")>>)
        /\ st.on = "ResponseTrailers"
              => (~st.err /\ st.responses = <<EmptyResponse("ResponseTrailers")>>)

\* what Envoy applies downstream of the request body phase: the headers set,
\* the route-cache signal, the body bytes forwarded, the status of an immediate
\* response, and whether Process ended the stream with an error
DownstreamEffect(err, responses, bytes) ==
    [failed |-> err,
     headers |-> SetHeadersOf(responses),
     clear |-> \E i \in 1..Len(responses) : responses[i].ClearRouteCache,
     body |-> IF \E i \in 1..Len(responses) : responses[i].BodyMutation.type # "none"
              THEN {responses[i].BodyMutation.Body :
                       i \in {j \in 1..Len(responses) :
                                 responses[j].BodyMutation.type # "none"}}
              ELSE {bytes},
     immediate |-> {<<responses[i].Code, responses[i].Message>> :
                       i \in {j \in 1..Len(responses) :
                                 responses[j].kind = "ImmediateResponse"}}]

\* the effect of the complete body delivered in one piece to a server of mode strm
EffectInMode(strm, stored, bytes) ==
    LET r == processRequestBody(strm, <<>>, bytes, TRUE, stored)
    IN DownstreamEffect(r.err, r.responses, bytes)

(* C13: when Process completes a request body (delivered whole, or in chunks *)
(* when streaming), the downstream effect of its responses (headers set,     *)
(* route-cache signal, body bytes forwarded, immediate status, stream        *)
(* failure) is the one a server of the other mode produces for the same      *)
(* stored request headers, the same registry and the same body.              *)
C13_ModesEquivalent ==
    [][\A e \in 1..MaxStreams :
          BodyCompleted(e)
          => DownstreamEffect(streams'[e].err, streams'[e].responses, streams'[e].body)
             = EffectInMode(~streaming, requestHeaders, streams'[e].body)
      ]_vars

\* the body stream e has received is a call that reached createRoutingResponse:
\* the name carries a server prefix and no immediate response was built
Routed(e, n) ==
    /\ BodyHandled(e)
    /\ CallOf(e, n)
    /\ ~Unprefixed(n)
    /\ ~Immediate(streams[e].responses)

(* C14: for a routed tool call a streaming server sends nothing before the   *)
(* end of the body and then exactly two responses in this order: a          *)
(* RequestHeaders response with the header mutation and no body, then a     *)
(* RequestBody response with the rewritten body as a streamed response with *)
(* end of stream and no header; a non-streaming server answers the body     *)
(* with exactly one RequestBody response with the header mutation and the   *)
(* rewritten body.                                                          *)
C14_RoutedMessages ==
    \A e \in 1..MaxStreams :
        LET r == streams[e].responses IN
        /\ (streaming /\ streams[e].next = "requestBody") => r = <<>>
        /\ \A n \in CalledNames :
              Routed(e, n)
              => LET rewritten == Marshal(CallDoc(stripServerPrefix(n))) IN
                 IF streaming
                 THEN /\ Len(r) = 2
                      /\ r[1].kind = "RequestHeaders"
                      /\ r[1].SetHeaders # <<>>
                      /\ r[1].BodyMutation.type = "none"
                      /\ r[2].kind = "RequestBody"
                      /\ r[2].SetHeaders = <<>>
                      /\ r[2].BodyMutation =
                            [type |-> "streamed", Body |-> rewritten, EndOfStream |-> TRUE]
                 ELSE /\ Len(r) = 1
                      /\ r[1].kind = "RequestBody"
                      /\ r[1].SetHeaders # <<>>
                      /\ r[1].BodyMutation.type = "body"
                      /\ r[1].BodyMutation.Body = rewritten

\* a routed call whose body came in more than one chunk has been answered by
\* a streaming server
C14_Witness ==
    /\ streaming
    /\ Routed(1, Server2Name \o <<"-">> \o Echo)
    /\ streams[1].streamedBody = streams[1].body
    /\ Len(streams[1].responses) = 2

(* C15: in a streaming server the buffer of an exchange holds, after each    *)
(* chunk, the chunks received so far in arrival order; a chunk without end   *)
(* of stream is answered by nothing and fails nothing; when the chunk with   *)
(* end of stream has been handled, the buffer that was parsed is the         *)
(* concatenation of all the chunks of the exchange, and a routed call is     *)
(* answered with the rewriting of that whole body.                           *)
C15_ChunksAccumulated ==
    \A e \in 1..MaxStreams :
        LET st == streams[e] IN
        (streaming /\ st.on = "RequestBody")
        => /\ st.streamedBody \o Concat(st.rest) = st.body
           /\ st.next = "requestBody" => (st.responses = <<>> /\ ~st.err)
           /\ BodyHandled(e)
                 => /\ st.streamedBody = st.body
                    /\ st.responses # <<>>
                    /\ \A n \in CalledNames :
                          Routed(e, n)
                          => st.responses[2].BodyMutation.Body
                                = Marshal(CallDoc(stripServerPrefix(n)))

\* a streaming server holds the first chunk of a tool call and awaits the rest
C15_Witness ==
    /\ streaming
    /\ streams[1].on = "RequestBody"
    /\ streams[1].next = "requestBody"
    /\ streams[1].body = ClientBytes(CallDoc(Server1Name \o <<"-">> \o Echo))
    /\ streams[1].streamedBody # <<>>
    /\ streams[1].rest # <<>>
    /\ streams[1].responses = <<>>

(* C16: a request body that is not valid JSON is answered, in either mode,   *)
(* by the one response that mutates nothing; Process does not return an      *)
(* error and the exchange goes on to its response phase.                     *)
C16_InvalidJSONPassedThrough ==
    \A e \in 1..MaxStreams :
        (BodyHandled(e) /\ Unmarshal(streams[e].body).err)
        => /\ NoMutation(streams[e].responses)
           /\ ~streams[e].err
           /\ streams[e].next = "responseHeaders"

\* the tools a tools/list of client session sess is answered with: those
\* registered with the one MCP server; the helper registers none per session
ListTools(sess) == RegisteredTools

(* C20: while the helper serves, the catalog is the one startup discovery    *)
(* stored: neither a client handshake, nor the creation of a session's       *)
(* backend connections, nor a tool call, nor any step of an ext-proc         *)
(* exchange changes aggregatedTools, and every client session is listed the  *)
(* same tools.                                                               *)
C20_CatalogFixed ==
    /\ phase = "serving"
    /\ aggregatedTools = <<Tool(Server1Name \o <<"-">> \o Echo, "d1"),
                           Tool(Server2Name \o <<"-">> \o Echo, "d1")>>
    /\ \A sess \in issued :
          ListTools(sess) = {HelperInfo, Server1Name \o <<"-">> \o Echo,
                             Server2Name \o <<"-">> \o Echo}

\* a session's mapping has been published and a tool call of that session has
\* been routed by the mediator
C20_Witness ==
    /\ Routed(1, Server1Name \o <<"-">> \o Echo)
    /\ streams[1].own \in DOMAIN sessionMappings
    /\ streams[1].own \in issued
    /\ Len(aggregatedTools) = 2

\* the session ids the backends gave to the discovery connections
StartupSessionIDs ==
    UNION {{backendSessions[b][n].sid : n \in SessionsOpenedFor(b, Startup)} : b \in Backends}

\* the connection c was opened for gateway session s
OpenedFor(c, s) ==
    /\ c # NoClient
    /\ backendSessions[c.backend][c.n].client = s

(* C21: the discovery connections serve nothing after startup.  Each backend *)
(* holds the one session of its discovery connection and no step opens      *)
(* another; every connection an initialisation holds or has stored was      *)
(* opened by createClientBackendConnection for its own gateway session; no  *)
(* published mapping and no routed tool call carries the session id of a    *)
(* discovery connection.                                                    *)
C21_DiscoveryConnectionsServeNothing ==
    /\ \A b \in Backends : SessionsOpenedFor(b, Startup) = {1}
    /\ \A i \in DOMAIN tasks :
          /\ tasks[i].c1 # NoClient => OpenedFor(tasks[i].c1, tasks[i].sess)
          /\ tasks[i].c2 # NoClient => OpenedFor(tasks[i].c2, tasks[i].sess)
    /\ \A s \in DOMAIN clientConnections :
          /\ OpenedFor(clientConnections[s].Server1Client, s)
          /\ OpenedFor(clientConnections[s].Server2Client, s)
    /\ \A s \in DOMAIN sessionMappings :
          /\ sessionMappings[s].Server1SessionID \notin StartupSessionIDs
          /\ sessionMappings[s].Server2SessionID \notin StartupSessionIDs
    /\ \A e \in 1..MaxStreams :
          (BodyHandled(e) /\ ~Immediate(streams[e].responses))
          => \A h \in SetHeadersOf(streams[e].responses) :
                h.Key = "mcp-session-id" => h.RawValue \notin StartupSessionIDs

\* a session's connections are stored, its mapping is published and one of its
\* tool calls has been routed with a backend session id
C21_Witness ==
    /\ Routed(1, Server2Name \o <<"-">> \o Echo)
    /\ streams[1].own \in DOMAIN clientConnections
    /\ \E h \in SetHeadersOf(streams[1].responses) :
          /\ h.Key = "mcp-session-id"
          /\ h.RawValue = clientConnections[streams[1].own].Server2SessionID

(* C22: a getOrCreateClientConnections(s) that starts when an entry for s is *)
(* stored returns in its first step with the connections of that entry: it   *)
(* makes no handshake with a backend and changes neither the stored          *)
(* connections nor the mappings.                                             *)
C22_ExistingEntryReturned ==
    [][\A i \in DOMAIN tasks :
          (/\ tasks[i].kind = "goc" /\ tasks[i].pc = "check"
           /\ tasks[i].sess \in DOMAIN clientConnections
           /\ tasks'[i] # tasks[i])
          => /\ tasks'[i].pc = "existing"
             /\ tasks'[i].c1 = clientConnections[tasks[i].sess].Server1Client
             /\ tasks'[i].c2 = clientConnections[tasks[i].sess].Server2Client
             /\ UNCHANGED <<backendSessions, clientConnections, sessionMappings>>
      ]_vars

\* a second call for a session has returned the entry the first call stored
C22_Witness ==
    /\ Len(tasks) = 2
    /\ tasks[1].sess = G1 /\ tasks[1].pc = "done"
    /\ tasks[2].sess = G1 /\ tasks[2].pc = "existing"
    /\ G1 \in DOMAIN clientConnections
    /\ tasks[2].c1 = clientConnections[G1].Server1Client
    /\ Cardinality(SessionsOpenedFor(Server1Name, G1)) = 1

CanProceed(i) ==
    /\ tasks[i].pc = "c1" => ENABLED InitConnect1(i)
    /\ tasks[i].pc = "c2" => ENABLED InitConnect2(i)
    /\ tasks[i].pc = "store" => ENABLED InitStoreConnections(i)
    /\ tasks[i].pc = "map" => ENABLED InitStoreMapping(i)

(* C24: while the creation of the connections of one gateway session is at  *)
(* a handshake with a backend, or between its handshakes and its stores,     *)
(* the creation for any other session can take its next step whatever that   *)
(* step is: no lock is held from one step of a creation to the next.        *)
C24_CreationDoesNotBlockOthers ==
    \A i, j \in DOMAIN tasks :
        (i # j /\ tasks[i].pc \in {"c1", "c2", "store", "map"}
               /\ tasks[i].sess # tasks[j].sess)
        => CanProceed(j)

\* the creation for g2 has completed and its mapping is read while the creation
\* for g1, started first, is still between its two handshakes
C24_Witness ==
    /\ Len(tasks) = 2
    /\ tasks[1].sess = G1 /\ tasks[1].pc = "c2"
    /\ tasks[2].sess = G2 /\ tasks[2].pc = "done"
    /\ GetSessionMapping(G2).found
    /\ ~GetSessionMapping(G1).found

----------------------------------------------------------------------------
\* the response sets the header key
Sets(response, key) ==
    \E j \in 1..Len(response.SetHeaders) : response.SetHeaders[j].Key = key

(* C25: every response of the mediator that sets x-mcp-server also clears    *)
(* the route cache, and is the RequestHeaders response of a streaming server *)
(* or the RequestBody response of a non-streaming one; a response that sets  *)
(* no header, and an immediate error response, never clear the route cache.  *)
C25_RoutingClearsRouteCache ==
    \A e \in 1..MaxStreams : \A i \in 1..Len(streams[e].responses) :
        LET r == streams[e].responses[i] IN
        /\ Sets(r, "x-mcp-server")
              => /\ r.ClearRouteCache
                 /\ r.kind = IF streaming THEN "RequestHeaders" ELSE "RequestBody"
        /\ (r.SetHeaders = <<>> \/ r.kind = "ImmediateResponse") => ~r.ClearRouteCache

\* a streaming server has routed a call of server1-echo of a client with a mapping
C25_Witness ==
    /\ streaming
    /\ Routed(1, Server1Echo)
    /\ Sets(streams[1].responses[1], "x-mcp-server")
    /\ streams[1].responses[1].ClearRouteCache
    /\ ~streams[1].responses[2].ClearRouteCache

\* strconv.Atoi of a decimal numeral
RECURSIVE Atoi(_)
Atoi(digits) ==
    IF digits = <<>> THEN 0
    ELSE 10 * Atoi(SubSeq(digits, 1, Len(digits) - 1)) + DigitValue(digits[Len(digits)])

\* the body the responses of one message carry to the backend
CarriedBodies(responses) ==
    {responses[k].BodyMutation.Body :
        k \in {k \in 1..Len(responses) : responses[k].BodyMutation.type # "none"}}

(* C26: a response that sets x-mcp-server sets content-length, and every     *)
(* content-length the mediator sets is the length of the one rewritten body  *)
(* its responses to the same message carry: the body mutation of the same    *)
(* response in a non-streaming server, the streamed body response that       *)
(* follows in a streaming one.                                               *)
C26_ContentLengthOfRewrittenBody ==
    \A e \in 1..MaxStreams : \A i \in 1..Len(streams[e].responses) :
        LET rs == streams[e].responses
            r == rs[i]
        IN /\ Sets(r, "x-mcp-server") => Sets(r, "content-length")
           /\ \A j \in 1..Len(r.SetHeaders) :
                 r.SetHeaders[j].Key = "content-length"
                 => /\ \E body \in CarriedBodies(rs) :
                          /\ CarriedBodies(rs) = {body}
                          /\ Atoi(r.SetHeaders[j].RawValue) = Len(body)
                    /\ IF streaming
                       THEN i < Len(rs) /\ rs[i + 1].BodyMutation.type = "streamed"
                       ELSE r.BodyMutation.type = "body"

\* a non-streaming server has routed a call of server2-echo: the one response
\* sets a content-length of two digits and carries the rewritten body
C26_Witness ==
    /\ ~streaming
    /\ Routed(1, Server2Name \o <<"-">> \o Echo)
    /\ Sets(streams[1].responses[1], "content-length")
    /\ Len(streams[1].responses[1].BodyMutation.Body) >= 10
    /\ streams[1].responses[1].BodyMutation.Body # streams[1].body

----------------------------------------------------------------------------
(* C27: a gateway session is never destroyed: no step takes a key out of     *)
(* sessionMappings or out of clientConnections, so a session that has an     *)
(* entry has one in every later state, also when a later initialisation of   *)
(* the same session fails or stores its entry again.                         *)
C27_SessionsNeverDestroyed ==
    [][/\ DOMAIN sessionMappings \subseteq DOMAIN sessionMappings'
       /\ DOMAIN clientConnections \subseteq DOMAIN clientConnections']_vars

\* G1 has its two entries, and an initialisation of G1 started after they were
\* stored has failed
C27_Witness ==
    /\ G1 \in DOMAIN sessionMappings
    /\ G1 \in DOMAIN clientConnections
    /\ \E i, j \in DOMAIN tasks :
          /\ i < j
          /\ tasks[i].sess = G1 /\ tasks[i].pc = "done"
          /\ tasks[j].sess = G1 /\ tasks[j].pc = "failed"

----------------------------------------------------------------------------
\* the session id has the form serverN-session-<id> of a backend N
Conventional(value) ==
    \E b \in Backends : HasPrefix(value, b \o SessionInfix \o <<"-">>)

(* C28: response headers whose header map is absent, that carry no           *)
(* mcp-session-id, or whose mcp-session-id is not of the form                *)
(* serverN-session-<id> are answered by one ResponseHeaders response that    *)
(* sets no header and mutates nothing, and Process goes on.                  *)
C28_UnconventionalPassedThrough ==
    \A e \in 1..MaxStreams :
        LET st == streams[e] IN
        (/\ st.on = "ResponseHeaders"
         /\ (st.upstream = NoHeaderMap \/ st.upstream = <<>> \/ ~Conventional(st.upstream)))
        => /\ Len(st.responses) = 1
           /\ st.responses[1].kind = "ResponseHeaders"
           /\ st.responses[1].SetHeaders = <<>>
           /\ st.responses[1].BodyMutation.type = "none"
           /\ ~st.responses[1].ClearRouteCache
           /\ ~st.err
           /\ st.next = "responseBody"

\* the response of a backend carries the session id the backend issued for G1
C28_Witness ==
    /\ streams[1].on = "ResponseHeaders"
    /\ G1 \in DOMAIN sessionMappings
    /\ streams[1].upstream = sessionMappings[G1].Server1SessionID
    /\ streams[1].responses[1].SetHeaders = <<>>

----------------------------------------------------------------------------
\* the names a rewritten body may carry
RewrittenNames == CalledNames \cup {stripServerPrefix(n) : n \in CalledNames}

(* C29: the rewritten body of a routed tool call is the received document    *)
(* with params.name replaced and nothing else changed: jsonrpc, id, method,  *)
(* params.arguments and every other field are written with the values the   *)
(* client sent.                                                              *)
C29_OnlyNameRewritten ==
    \A e \in 1..MaxStreams : \A d \in AllDocuments :
        (/\ BodyHandled(e)
         /\ streams[e].body = ClientBytes(d)
         /\ CarriedBodies(streams[e].responses) # {})
        => \E n \in RewrittenNames :
              CarriedBodies(streams[e].responses) = {Marshal(WithNameValue(d, JStr(n)))}

----------------------------------------------------------------------------
\* the field of the document is the string s
IsString(d, key, s) == key \in DOMAIN d /\ d[key] = JStr(s)

\* the document is a JSON-RPC 2.0 tools/call whose params is an object with a
\* string name
IsToolCall(d) ==
    /\ IsString(d, "jsonrpc", V20)
    /\ IsString(d, "method", ToolsCall)
    /\ "params" \in DOMAIN d
    /\ d["params"].t = "obj"
    /\ "name" \in DOMAIN d["params"].m
    /\ d["params"].m["name"].t = "str"

(* C30: for every document received as a request body, extractMCPToolName    *)
(* returns params.name if the document has jsonrpc "2.0", method             *)
(* "tools/call", an object params and a string params.name, and the empty    *)
(* name otherwise; a body whose name comes out empty is answered by the one  *)
(* response that mutates nothing and goes on to the response phase.          *)
C30_ToolNameOnlyOfToolCalls ==
    \A e \in 1..MaxStreams : \A d \in AllDocuments :
        (BodyHandled(e) /\ streams[e].body = ClientBytes(d))
        => LET toolName == extractMCPToolName(Unmarshal(streams[e].body).data) IN
           /\ IsToolCall(d) => toolName = d["params"].m["name"].s
           /\ ~IsToolCall(d) => toolName = <<>>
           /\ toolName = <<>>
                 => /\ NoMutation(streams[e].responses)
                    /\ ~streams[e].err
                    /\ streams[e].next = "responseHeaders"

\* a call of server1-echo that says jsonrpc 1.0, of a client with a mapping,
\* has been passed through
C30_Witness ==
    /\ BodyHandled(1)
    /\ streams[1].body = ClientBytes(MapPut(CallDoc(Server1Echo), "jsonrpc", JStr(V10)))
    /\ streams[1].own \in DOMAIN sessionMappings
    /\ extractSessionFromContext(requestHeaders) = streams[1].own
    /\ NoMutation(streams[1].responses)

----------------------------------------------------------------------------
\* the one immediate response with the status code, that mutates nothing
ImmediateError(responses, code) ==
    /\ Len(responses) = 1
    /\ responses[1].kind = "ImmediateResponse"
    /\ responses[1].Code = code
    /\ responses[1].SetHeaders = <<>>
    /\ responses[1].BodyMutation.type = "none"
    /\ ~responses[1].ClearRouteCache

(* C31: when the body of a tools/call with a server1- or server2- name has   *)
(* been received whole, the mediator answers with one immediate response of  *)
(* status 400 if the stored request headers carry no mcp-session-id, and     *)
(* with one immediate response of status 500 if they carry one and no        *)
(* helper is attached; the response mutates no header and no body, and the   *)
(* step leaves the registry as it was.                                       *)
C31_MissingSessionOrHelperRejected ==
    [][\A e \in 1..MaxStreams : \A n \in CalledNames :
          (/\ BodyCompleted(e)
           /\ streams'[e].body = ClientBytes(CallDoc(n))
           /\ ~Unprefixed(n))
          => LET helperSession == extractSessionFromContext(requestHeaders) IN
             /\ helperSession = <<>> => ImmediateError(streams'[e].responses, 400)
             /\ (helperSession # <<>> /\ ~helper)
                   => ImmediateError(streams'[e].responses, 500)
             /\ (helperSession = <<>> \/ ~helper)
                   => /\ registryVars' = registryVars
                      /\ ~streams'[e].err]_vars

\* a mediator without helper has rejected a call of server1-echo that carried
\* the session G1
C31_Witness ==
    /\ ~helper
    /\ BodyHandled(1)
    /\ CallOf(1, Server1Echo)
    /\ streams[1].own = G1
    /\ ImmediateError(streams[1].responses, 500)
    /\ streams[1].responses[1].Message = "Helper not available"

----------------------------------------------------------------------------
\* the sessions backend b holds open for the gateway session s: a backend
\* keeps a session it has opened, and the helper closes no connection
LiveSessions(b, s) ==
    {n \in 1..Len(backendSessions[b]) :
        backendSessions[b][n].client = s /\ backendSessions[b][n].sid # <<>>}

\* every creation of connections for s has failed
OnlyFailedAttempts(s) ==
    /\ \E i \in DOMAIN tasks : tasks[i].sess = s
    /\ \A i \in DOMAIN tasks : tasks[i].sess = s => tasks[i].pc = "failed"

(* C32: a creation of connections that fails at server2 after the server1   *)
(* handshake succeeded discards the server1 connection: when every creation *)
(* for a gateway session has failed, no backend holds a session open for    *)
(* it.                                                                      *)
C32_FailedAttemptLeavesNoSession ==
    \A s \in SessionIds : \A b \in Backends :
        OnlyFailedAttempts(s) => LiveSessions(b, s) = {}

----------------------------------------------------------------------------
(* C33: every gateway session with a published mapping has an entry in       *)
(* clientConnections, and the backend session ids of the mapping are those   *)
(* recorded in that entry, also when the session was initialised more than   *)
(* once or by several goroutines at a time.                                  *)
C33_MappingAgreesWithConnections ==
    \A s \in DOMAIN sessionMappings :
        /\ s \in DOMAIN clientConnections
        /\ sessionMappings[s].Server1SessionID = clientConnections[s].Server1SessionID
        /\ sessionMappings[s].Server2SessionID = clientConnections[s].Server2SessionID

----------------------------------------------------------------------------
(* C34: every published mapping has a non-empty Server1SessionID and a       *)
(* non-empty Server2SessionID, and every routed tool call is answered with   *)
(* a header mutation that sets mcp-session-id to a non-empty value.          *)
C34_MappingsAndRoutesCarrySessions ==
    /\ \A s \in DOMAIN sessionMappings :
          /\ sessionMappings[s].Server1SessionID # <<>>
          /\ sessionMappings[s].Server2SessionID # <<>>
    /\ \A e \in 1..MaxStreams : \A n \in CalledNames :
          Routed(e, n)
          => \E h \in SetHeadersOf(streams[e].responses) :
                h.Key = "mcp-session-id" /\ h.RawValue # <<>>

\* a call of server2-echo has been routed with the server2 session of the
\* mapping published for its client
C34_Witness ==
    /\ Routed(1, Server2Name \o <<"-">> \o Echo)
    /\ streams[1].own \in DOMAIN sessionMappings
    /\ HeaderSet(streams[1].responses, "mcp-session-id",
                 sessionMappings[streams[1].own].Server2SessionID)

----------------------------------------------------------------------------
\* the responses set the header key to the value
RoutedTo(responses, b) == HeaderSet(responses, "x-mcp-server", b)

(* C35: routing and stripping agree: when the mediator routes a tool call to *)
(* backend b, the name of the call starts with "b-" and the forwarded body   *)
(* is the received document with the name that follows this one prefix, also *)
(* when nothing follows it and when another prefix follows it.               *)
C35_RoutedNameIsStripped ==
    \A e \in 1..MaxStreams : \A d \in AllDocuments : \A b \in Backends :
        (/\ BodyHandled(e)
         /\ streams[e].body = ClientBytes(d)
         /\ RoutedTo(streams[e].responses, b))
        => LET name == d["params"].m["name"].s
               rest == SubSeq(name, Len(b) + 2, Len(name))
           IN /\ HasPrefix(name, b \o <<"-">>)
              /\ CarriedBodies(streams[e].responses)
                    = {Marshal(WithNameValue(Unmarshal(streams[e].body).data, JStr(rest)))}

\* a call of the name "server1-" has been routed to server1 with the empty name
C35_Witness ==
    /\ BodyHandled(1)
    /\ streams[1].body = ClientBytes(CallDoc(Server1Name \o <<"-">>))
    /\ RoutedTo(streams[1].responses, Server1Name)
    /\ CarriedBodies(streams[1].responses) = {Marshal(CallDoc(<<>>))}

----------------------------------------------------------------------------
\* the values the responses set the header key to
ValuesSet(responses, key) == {h.RawValue : h \in {x \in SetHeadersOf(responses) : x.Key = key}}

\* the ends of a name, from any place on
Suffixes(name) == {SubSeq(name, k, Len(name)) : k \in 1..(Len(name) + 1)}

(* C36: in the responses that route a tool call, x-mcp-toolname is set to    *)
(* the one value that is the name the client called, x-mcp-server to one     *)
(* backend, and the name in the forwarded body is what follows                *)
(* "<x-mcp-server>-" in x-mcp-toolname.                                      *)
C36_RoutingFactsConsistent ==
    \A e \in 1..MaxStreams : \A d \in AllDocuments :
        (/\ BodyHandled(e)
         /\ streams[e].body = ClientBytes(d)
         /\ ValuesSet(streams[e].responses, "x-mcp-server") # {})
        => LET rs == streams[e].responses IN
           /\ ValuesSet(rs, "x-mcp-toolname") = {d["params"].m["name"].s}
           /\ \E b \in Backends : ValuesSet(rs, "x-mcp-server") = {b}
           /\ \E b \in ValuesSet(rs, "x-mcp-server") :
                 \E n \in Suffixes(d["params"].m["name"].s) :
                    /\ d["params"].m["name"].s = b \o <<"-">> \o n
                    /\ CarriedBodies(rs)
                          = {Marshal(WithNameValue(Unmarshal(streams[e].body).data, JStr(n)))}

\* a streaming server has routed a call of server2-echo
C36_Witness ==
    /\ streaming
    /\ Routed(1, Server2Name \o <<"-">> \o Echo)
    /\ ValuesSet(streams[1].responses, "x-mcp-toolname") = {Server2Name \o <<"-">> \o Echo}
    /\ ValuesSet(streams[1].responses, "x-mcp-server") = {Server2Name}

----------------------------------------------------------------------------
\* the RequestHeaders responses among the responses
HeadersResponses(responses) ==
    {i \in 1..Len(responses) : responses[i].kind = "RequestHeaders"}

(* C37: an exchange is answered with at most one RequestHeaders response.    *)
(* A message answered with one is either the request headers, in a           *)
(* non-streaming server or with end of stream, answered at once with the     *)
(* response that mutates nothing; or the chunk that ends the body in a       *)
(* streaming server, after request headers and chunks that were answered     *)
(* with nothing.  No other message is answered with one, so the two never    *)
(* happen in one exchange.                                                   *)
C37_OneHeadersResponse ==
    [][\A e \in 1..MaxStreams :
          streams'[e] # streams[e]
          => LET sent == HeadersResponses(streams'[e].responses) IN
             /\ Cardinality(sent) <= 1
             /\ sent # {}
                   => \/ /\ streams[e].next = "idle"
                         /\ ~streaming \/ requestHeaders'.EndOfStream
                         /\ streams'[e].responses = <<EmptyResponse("RequestHeaders")>>
                      \/ /\ streams[e].next = "requestBody"
                         /\ streaming
                         /\ streams[e].responses = <<>>
                         /\ streams'[e].next # "requestBody"
             /\ (streams[e].next = "idle" /\ streaming /\ ~requestHeaders'.EndOfStream)
                   => streams'[e].responses = <<>>]_vars

\* a streaming server has answered the last chunk of a tools/list with the
\* RequestHeaders response it had put off
C37_Witness ==
    /\ streaming
    /\ BodyHandled(1)
    /\ streams[1].body = ClientBytes(ListDoc)
    /\ streams[1].responses = <<EmptyResponse("RequestHeaders")>>

----------------------------------------------------------------------------
\* the step is a tool call handled by the helper's MCP server
CallHandled ==
    /\ Len(tasks') = Len(tasks) + 1
    /\ tasks'[Len(tasks')].kind = "call"

(* C38: a tool call of a catalog tool that reaches the helper's MCP server   *)
(* is answered with an error result, whatever the tool and whether or not    *)
(* the session has a mapping; handling it opens no backend session, holds no *)
(* backend connection and leaves the issued sessions, the connections, the   *)
(* mappings and the other goroutines as they were.                           *)
C38_HelperAnswersCallsWithError ==
    [][CallHandled
       => /\ tasks'[Len(tasks')].pc = NewToolResultError
          /\ tasks'[Len(tasks')].c1 = NoClient /\ tasks'[Len(tasks')].c2 = NoClient
          /\ SubSeq(tasks', 1, Len(tasks)) = tasks
          /\ backendSessions' = backendSessions
          /\ clientConnections' = clientConnections
          /\ sessionMappings' = sessionMappings
          /\ issued' = issued]_vars

\* a tool call of G1, whose mapping is published, was answered by the helper
C38_Witness ==
    /\ G1 \in DOMAIN sessionMappings
    /\ \E i \in DOMAIN tasks :
          /\ tasks[i].kind = "call"
          /\ tasks[i].sess = G1
          /\ tasks[i].pc = NewToolResultError
    /\ \A b \in Backends : Cardinality(LiveSessions(b, G1)) = 1

====
